---- MODULE Spec2Model ----
(***************************************************************************)
(* ClawHubService (plugin-cskills): the TTL-governed caches of the catalog, *)
(* of search results and of skill details, the paginated catalog refresh    *)
(* with its await points, slug validation, and skill installation.          *)
(*                                                                          *)
(* Strings that the code inspects character by character (slugs, archive    *)
(* entry names) are sequences of one-character strings.  Every asynchronous *)
(* call runs in a task slot; a task is suspended at the awaits of the code  *)
(* and other tasks run between them (single-threaded, cooperative).         *)
(***************************************************************************)
EXTENDS Integers, Sequences, FiniteSets, TLC

\* ------------------------------------------------------------------ bounds
MaxPages == 2          \* pages the remote serves for one catalog listing
MaxRemoteVersion == 2  \* versions of its content the remote publishes
MaxPeriods == 2        \* periods of the sync interval that are followed
CacheTicks == 1        \* clock advances in a behaviour of SpecCache
StartTime == 1000      \* Date.now() when the service is constructed

\* ------------------------------------------------------- program constants
CACHE_TTL_CATALOG == 1000 * 60 * 60
CACHE_TTL_SKILL_DETAILS == 1000 * 60 * 30
CACHE_TTL_SEARCH == 1000 * 60 * 5
MAX_PACKAGE_BYTES == 10 * 1024 * 1024

\* null / undefined where the code holds an object, and the values of
\* options.notOlderThan: undefined, Infinity, or a number of milliseconds.
NULL == [null |-> TRUE]
UNDEF == [kind |-> "undefined"]
Infinity == [kind |-> "Infinity"]
Ms(n) == [kind |-> "ms", ms |-> n]

VARIABLES
    now,            \* Date.now()
    ticks,          \* clock advances so far (bounds the behaviour)
    remoteVersion,  \* the version of its content the remote serves
    timers,         \* the timeout and the interval of startSyncTask
    stopped,        \* stop() has run on the service (history of the lifecycle)
    catalogCache,   \* this.catalogCache: NULL or [data, cachedAt]
    searchCache,    \* this.searchCache: cacheKey -> [data, cachedAt]
    detailsCache,   \* this.detailsCache: slug -> [data, cachedAt]
    diskCatalog,    \* cache/catalog.json: NULL (no file) or its text
    loadedSkills,   \* this.loadedSkills: slug -> Skill
    lockfile,       \* .clawhub/lock.json: its content, and its records
    files,          \* the paths of the files written under the skills root
    tasks           \* the calls in flight and their locals

envVars == <<now, ticks, remoteVersion, timers, stopped>>
cacheVars == <<catalogCache, searchCache, detailsCache, diskCatalog>>
storeVars == <<loadedSkills, lockfile, files>>
vars == <<now, ticks, remoteVersion, timers, stopped, catalogCache, searchCache,
          detailsCache, diskCatalog, loadedSkills, lockfile, files, tasks>>

\* The text of a file: JSON.stringify(value), or text that JSON.parse rejects.
JsonText(value) == [parses |-> TRUE, value |-> value]
Unparsable == [parses |-> FALSE]

\* The slots in which calls run; a call in each may be in flight at once.
Tasks == {"t1", "t2"}

\* ------------------------------------------------------------------- maps
\* A JavaScript Map is a function whose domain is the set of keys present.
EmptyMap == [k \in {} |-> NULL]
MapGet(m, k) == IF k \in DOMAIN m THEN m[k] ELSE NULL
\* Mutant: setting one key drops every other entry.
MapSet_Replace(m, k, v) == [x \in {k} |-> v]

MapSet(m, k, v) == [x \in DOMAIN m \cup {k} |-> IF x = k THEN v ELSE m[x]]

\* ----------------------------------------------------------------- remote
\* One catalog entry: the remote version it was listed under, its page, and
\* whether that page was the last one (it carried no nextCursor).
CatalogItem(v, k, isLast) == [ver |-> v, page |-> k, last |-> isLast]

\* A listing whose pages were all fetched: pages 1..n in order, and only the
\* n-th carried no nextCursor.
IsCompleteListing(s) ==
    /\ Len(s) >= 1
    /\ \A i \in 1..Len(s) : s[i].page = i /\ (s[i].last <=> i = Len(s))

OldSnapshot == <<CatalogItem(0, 1, TRUE)>>

\* What the remote answers to a search and to a detail lookup.
SearchResultsOf(query, v) == <<[slug |-> query, ver |-> v]>>
SkillDetailsOf(slug, v) == [slug |-> slug, latestVersion |-> v]

\* ------------------------------------------------------------ cache policy
\* Mutant: the boundary instant still counts as fresh.
AgeBelow_Inclusive(age, ttl) ==
    IF ttl = Infinity THEN TRUE ELSE age <= ttl.ms

\* age < ttl, where ttl may be Infinity.
AgeBelow(age, ttl) == IF ttl = Infinity THEN TRUE ELSE age < ttl.ms

\* options.notOlderThan ?? defaultTtl
EffectiveTtl(notOlderThan, defaultTtl) ==
    IF notOlderThan = UNDEF THEN Ms(defaultTtl) ELSE notOlderThan

\* Mutant: forceRefresh is not looked at.
IsUsable_IgnoresForce(entry, force, ttl) ==
    /\ entry # NULL
    /\ IF ttl = Infinity THEN TRUE ELSE now - entry.cachedAt < ttl.ms

\* The cache check of getCatalog, search and getSkillDetails:
\* !options.forceRefresh && entry && (Date.now() - entry.cachedAt) < ttl
IsUsable(entry, force, ttl) ==
    /\ ~force
    /\ entry # NULL
    /\ AgeBelow(now - entry.cachedAt, ttl)

\* ------------------------------------------------------------------ tasks
NoRet == [kind |-> "none"]
Value(v) == [kind |-> "value", val |-> v]
Throw(e) == [kind |-> "throw", error |-> e]

\* A free slot.  Of a call in flight the slot holds: op and caller, the
\* arguments (key, force, notOlderThan), the cache entry the call found
\* (seen) and when (calledAt), the locals of the catalog loop (entries,
\* cursor), the number of network requests it has made and whether it has
\* touched the filesystem, the locals of install (safeSlug, the resolved
\* version, the downloaded archive), its result (ret) and the return statement
\* that produced it (via), and the locals of the action handler that awaits
\* the call (frame), if one does.
IdleTask ==
    [op |-> "idle", pc |-> "idle", caller |-> "none", key |-> <<>>,
     force |-> FALSE, notOlderThan |-> UNDEF, calledAt |-> 0, seen |-> NULL,
     entries |-> <<>>, cursor |-> NULL, requests |-> 0, usedFs |-> FALSE,
     safeSlug |-> <<>>, version |-> "", resolvedVersion |-> "",
     archive |-> NULL, ret |-> NoRet, via |-> "none", frame |-> NULL]

\* A call as it starts; the cache entry is looked at unless forceRefresh.
Call(op, caller, key, force, notOlderThan, entry) ==
    [IdleTask EXCEPT !.op = op, !.caller = caller, !.key = key,
        !.force = force, !.notOlderThan = notOlderThan, !.calledAt = now,
        !.seen = IF force THEN NULL ELSE entry]

Done(task, via, ret) == [task EXCEPT !.pc = "done", !.via = via, !.ret = ret]

\* ------------------------------------------------------------------ slugs
\* The characters of [a-zA-Z0-9_-].
SlugChars ==
    {"a", "b", "c", "d", "e", "f", "g", "h", "i", "j", "k", "l", "m", "n",
     "o", "p", "q", "r", "s", "t", "u", "v", "w", "x", "y", "z",
     "A", "B", "C", "D", "E", "F", "G", "H", "I", "J", "K", "L", "M", "N",
     "O", "P", "Q", "R", "S", "T", "U", "V", "W", "X", "Y", "Z",
     "0", "1", "2", "3", "4", "5", "6", "7", "8", "9", "_", "-"}

MAX_SLUG_LENGTH == 100

\* slug.replace(/[^a-zA-Z0-9_-]/g, '')
StripSlug(slug) == SelectSeq(slug, LAMBDA c : c \in SlugChars)

\* Mutant: the length limit is not checked.
sanitizeSlug_NoLengthLimit(slug) ==
    IF StripSlug(slug) # slug \/ Len(slug) = 0
    THEN [ok |-> FALSE]
    ELSE [ok |-> TRUE, slug |-> slug]

\* Mutant: the slug is cleaned instead of rejected.
sanitizeSlug_Lenient(slug) ==
    IF Len(StripSlug(slug)) = 0 \/ Len(StripSlug(slug)) > MAX_SLUG_LENGTH
    THEN [ok |-> FALSE]
    ELSE [ok |-> TRUE, slug |-> StripSlug(slug)]

\* sanitizeSlug(slug): the slug itself, or the thrown error.
sanitizeSlug(slug) ==
    LET sanitized == StripSlug(slug)
    IN  IF sanitized # slug \/ Len(sanitized) = 0
           \/ Len(sanitized) > MAX_SLUG_LENGTH
        THEN [ok |-> FALSE]
        ELSE [ok |-> TRUE, slug |-> sanitized]

\* ---------------------------------------------------------------- catalog
\* Mutant: the catch returns [] whatever the cache holds.
CatalogDataOrEmpty_AlwaysEmpty == <<>>

\* this.catalogCache?.data || []
CatalogDataOrEmpty == IF catalogCache = NULL THEN <<>> ELSE catalogCache.data

\* Mutant: a call that misses while another fetch is in flight does not fetch;
\* it answers with what the cache holds.
GetCatalogStart_Coalesced(caller, force, notOlderThan) ==
    LET ttl == EffectiveTtl(notOlderThan, CACHE_TTL_CATALOG)
        call == Call("getCatalog", caller, <<>>, force, notOlderThan,
                     catalogCache)
    IN  IF IsUsable(catalogCache, force, ttl)
        THEN Done(call, "hit", Value(catalogCache.data))
        ELSE IF \E u \in Tasks :
                   tasks[u].op = "getCatalog" /\ tasks[u].pc = "page"
        THEN Done(call, "joined", Value(CatalogDataOrEmpty))
        ELSE [call EXCEPT !.pc = "page", !.requests = 1]

\* getCatalog(options), up to its first await: the cache check, and on a miss
\* the request for the first page.
GetCatalogStart(caller, force, notOlderThan) ==
    LET ttl == EffectiveTtl(notOlderThan, CACHE_TTL_CATALOG)
        call == Call("getCatalog", caller, <<>>, force, notOlderThan,
                     catalogCache)
    IN  IF IsUsable(catalogCache, force, ttl)
        THEN Done(call, "hit", Value(catalogCache.data))
        ELSE [call EXCEPT !.pc = "page", !.requests = 1]

GetCatalogCall(t, caller, force, notOlderThan) ==
    /\ tasks[t].pc = "idle"
    /\ tasks' = [tasks EXCEPT ![t] =
                    GetCatalogStart(caller, force, notOlderThan)]
    /\ UNCHANGED <<envVars, cacheVars, storeVars>>

\* Mutant: the snapshot is written before the cache is replaced.
SaveCatalogToDisk_Previous(entry, written) ==
    IF written THEN JsonText(catalogCache) ELSE diskCatalog

\* saveCatalogToDisk(): the write may fail, and the failure is swallowed.
SaveCatalogToDisk(entry, written) ==
    IF written THEN JsonText(entry) ELSE diskCatalog

\* Mutant: the cache is assigned after every page.
CatalogAfterPage_EveryPage(entries, hasNext) ==
    [data |-> entries, cachedAt |-> now]

\* The cache after a page was appended to the local entries: replaced when
\* the listing is complete (the page carried no nextCursor), else untouched.
CatalogAfterPage(entries, hasNext) ==
    IF hasNext THEN catalogCache ELSE [data |-> entries, cachedAt |-> now]

\* One page answered with response.ok (the awaits of fetch and of
\* response.json() touch no shared state between them): the items are
\* appended to the local entries; with a nextCursor the next page is
\* requested, without one the cache is replaced and saved.
GetCatalogPageOk(t, hasNext, written) ==
    /\ tasks[t].op = "getCatalog" /\ tasks[t].pc = "page"
    /\ LET k == IF tasks[t].cursor = NULL THEN 1 ELSE tasks[t].cursor.page
           entries == Append(tasks[t].entries,
                             CatalogItem(remoteVersion, k, ~hasNext))
       IN  /\ hasNext => k < MaxPages
           /\ catalogCache' = CatalogAfterPage(entries, hasNext)
           /\ IF hasNext
              THEN /\ tasks' = [tasks EXCEPT ![t].entries = entries,
                                    ![t].cursor = [page |-> k + 1],
                                    ![t].requests = @ + 1]
                   /\ UNCHANGED diskCatalog
              ELSE /\ diskCatalog' = SaveCatalogToDisk(catalogCache', written)
                   /\ tasks' = [tasks EXCEPT ![t] =
                          Done([@ EXCEPT !.entries = entries], "fetched",
                               Value(entries))]
    /\ UNCHANGED <<envVars, searchCache, detailsCache, storeVars>>

\* Mutant: on a failure the pages fetched so far are kept as the catalog.
GetCatalogPageFail_KeepsPartial(t) ==
    /\ tasks[t].op = "getCatalog" /\ tasks[t].pc = "page"
    /\ catalogCache' = IF tasks[t].entries = <<>> THEN catalogCache
                       ELSE [data |-> tasks[t].entries, cachedAt |-> now]
    /\ tasks' = [tasks EXCEPT ![t] =
                     Done(@, "fallback", Value(tasks[t].entries))]
    /\ UNCHANGED <<envVars, searchCache, detailsCache, diskCatalog, storeVars>>

\* One page answered with a non-ok status (or fetch rejected): the catch
\* returns the stale cache, or the empty list.
GetCatalogPageFail(t) ==
    /\ tasks[t].op = "getCatalog" /\ tasks[t].pc = "page"
    /\ tasks' = [tasks EXCEPT ![t] = Done(@, "fallback", Value(CatalogDataOrEmpty))]
    /\ UNCHANGED <<envVars, cacheVars, storeVars>>

\* getCatalogStats(): total and cachedAt of the cached catalog, and the
\* number of loaded skills.
GetCatalogStats(t) ==
    /\ tasks[t].pc = "idle"
    /\ tasks' = [tasks EXCEPT ![t] =
          Done(Call("getCatalogStats", "direct", <<>>, FALSE, UNDEF,
                    catalogCache),
               "read",
               Value([total |-> Len(CatalogDataOrEmpty),
                      installed |-> Cardinality(DOMAIN loadedSkills),
                      cachedAt |-> IF catalogCache = NULL THEN NULL
                                   ELSE [at |-> catalogCache.cachedAt]]))]
    /\ UNCHANGED <<envVars, cacheVars, storeVars>>

\* syncCatalog(), up to its await: oldCount is read from the cache (seen) and
\* getCatalog is called with forceRefresh: true; frame keeps oldCount and the
\* caller of the sync.
SyncCatalogStart(caller) ==
    [GetCatalogStart("syncCatalog", TRUE, UNDEF) EXCEPT
        !.seen = catalogCache,
        !.frame = [oldCount |-> Len(CatalogDataOrEmpty), caller |-> caller]]

SyncCatalogCall(t) ==
    /\ tasks[t].pc = "idle"
    /\ tasks' = [tasks EXCEPT ![t] = SyncCatalogStart("direct")]
    /\ UNCHANGED <<envVars, cacheVars, storeVars>>

\* Mutant: the difference of the counts is not floored.
Added_Signed(newCount, oldCount) == newCount - oldCount

\* Math.max(0, newCount - oldCount)
Added(newCount, oldCount) ==
    IF newCount > oldCount THEN newCount - oldCount ELSE 0

\* syncCatalog() after its await: newCount is read from the cache as it is
\* now, and { added, updated } is returned.
SyncCatalogReturn(t) ==
    /\ tasks[t].op = "getCatalog" /\ tasks[t].pc = "done"
    /\ tasks[t].caller = "syncCatalog"
    /\ LET newCount == Len(CatalogDataOrEmpty)
           c == tasks[t]
       IN  tasks' = [tasks EXCEPT ![t] =
              Done([c EXCEPT !.op = "syncCatalog", !.caller = c.frame.caller],
                   c.via,
                   Value([added |-> Added(newCount, c.frame.oldCount),
                          updated |-> newCount]))]
    /\ UNCHANGED <<envVars, cacheVars, storeVars>>

\* ----------------------------------------------------------------- search
\* Mutant: the limit is left out of the key.
cacheKey_QueryOnly(query, limit) == <<query>>

\* `${query}:${limit}`
cacheKey(query, limit) == <<query, ":", limit>>

\* search(query, limit, options), up to its first await: the call as it
\* returns from the cache or waits for the answer to its request.
SearchStart(caller, query, limit, force, notOlderThan) ==
    LET ttl == EffectiveTtl(notOlderThan, CACHE_TTL_SEARCH)
        cached == MapGet(searchCache, cacheKey(query, limit))
        call == Call("search", caller, <<query, limit>>, force,
                     notOlderThan, cached)
    IN  IF IsUsable(cached, force, ttl)
        THEN Done(call, "hit", Value(cached.data))
        ELSE [call EXCEPT !.pc = "search", !.requests = 1]

SearchCall(t, caller, query, limit, force, notOlderThan) ==
    /\ tasks[t].pc = "idle"
    /\ tasks' = [tasks EXCEPT ![t] =
          SearchStart(caller, query, limit, force, notOlderThan)]
    /\ UNCHANGED <<envVars, cacheVars, storeVars>>

\* The search answered with response.ok: data.results || [] is cached under
\* the key and returned.
SearchAnswered(t, results) ==
    /\ tasks[t].op = "search" /\ tasks[t].pc = "search"
    /\ searchCache' = MapSet(searchCache,
                             cacheKey(tasks[t].key[1], tasks[t].key[2]),
                             [data |-> results, cachedAt |-> now])
    /\ tasks' = [tasks EXCEPT ![t] = Done(@, "fetched", Value(results))]
    /\ UNCHANGED <<envVars, catalogCache, detailsCache, diskCatalog, storeVars>>

SearchOk(t, noResults) ==
    SearchAnswered(t, IF noResults THEN <<>>
                      ELSE SearchResultsOf(tasks[t].key[1], remoteVersion))

\* Mutant: the failure of the search is thrown on to the caller.
SearchFail_Throws(t) ==
    /\ tasks[t].op = "search" /\ tasks[t].pc = "search"
    /\ tasks' = [tasks EXCEPT ![t] = Done(@, "throw", Throw("RemoteError"))]
    /\ UNCHANGED <<envVars, cacheVars, storeVars>>

\* Mutant: the catch returns [] whatever is cached.
SearchFail_DropsStale(t) ==
    /\ tasks[t].op = "search" /\ tasks[t].pc = "search"
    /\ tasks' = [tasks EXCEPT ![t] = Done(@, "fallback", Value(<<>>))]
    /\ UNCHANGED <<envVars, cacheVars, storeVars>>

\* The search failed: the catch returns the stale entry's data, or [].
SearchFail(t) ==
    /\ tasks[t].op = "search" /\ tasks[t].pc = "search"
    /\ LET cached == MapGet(searchCache,
                            cacheKey(tasks[t].key[1], tasks[t].key[2]))
       IN  tasks' = [tasks EXCEPT ![t] =
               Done(@, "fallback",
                    Value(IF cached = NULL THEN <<>> ELSE cached.data))]
    /\ UNCHANGED <<envVars, cacheVars, storeVars>>

\* ---------------------------------------------------------------- details
\* getSkillDetails(slug, options), up to its first await: sanitizeSlug throws
\* before anything else; then the cache check.
GetSkillDetailsCall(t, caller, slug, force, notOlderThan) ==
    /\ tasks[t].pc = "idle"
    /\ LET safe == sanitizeSlug(slug)
           ttl == EffectiveTtl(notOlderThan, CACHE_TTL_SKILL_DETAILS)
           cached == IF safe.ok THEN MapGet(detailsCache, safe.slug) ELSE NULL
           call == [Call("getSkillDetails", caller, slug, force, notOlderThan,
                         cached)
                       EXCEPT !.safeSlug = IF safe.ok THEN safe.slug ELSE <<>>]
       IN  IF ~safe.ok
           THEN tasks' = [tasks EXCEPT ![t] = Done(call, "throw", Throw("InvalidSlug"))]
           ELSE IF IsUsable(cached, force, ttl)
           THEN tasks' = [tasks EXCEPT ![t] = Done(call, "hit", Value(cached.data))]
           ELSE tasks' = [tasks EXCEPT ![t] =
                              [call EXCEPT !.pc = "details", !.requests = 1]]
    /\ UNCHANGED <<envVars, cacheVars, storeVars>>

\* The lookup answered with response.ok: the details are cached and returned.
GetSkillDetailsOk(t) ==
    /\ tasks[t].op = "getSkillDetails" /\ tasks[t].pc = "details"
    /\ LET details == SkillDetailsOf(tasks[t].safeSlug, remoteVersion)
       IN  /\ detailsCache' = MapSet(detailsCache, tasks[t].safeSlug,
                                     [data |-> details, cachedAt |-> now])
           /\ tasks' = [tasks EXCEPT ![t] = Done(@, "fetched", Value(details))]
    /\ UNCHANGED <<envVars, catalogCache, searchCache, diskCatalog, storeVars>>

\* Mutant: a 404 is answered from the cached entry when there is one.
GetSkillDetailsNotFound_ServesStale(t) ==
    /\ tasks[t].op = "getSkillDetails" /\ tasks[t].pc = "details"
    /\ LET cached == MapGet(detailsCache, tasks[t].safeSlug)
       IN  tasks' = [tasks EXCEPT ![t] =
               Done(@, "notFound",
                    Value(IF cached = NULL THEN NULL ELSE cached.data))]
    /\ UNCHANGED <<envVars, cacheVars, storeVars>>

\* The lookup answered 404: null, and the cache is left as it is.
GetSkillDetailsNotFound(t) ==
    /\ tasks[t].op = "getSkillDetails" /\ tasks[t].pc = "details"
    /\ tasks' = [tasks EXCEPT ![t] = Done(@, "notFound", Value(NULL))]
    /\ UNCHANGED <<envVars, cacheVars, storeVars>>

\* The lookup failed: the catch returns the stale entry's data, or null.
GetSkillDetailsFail(t) ==
    /\ tasks[t].op = "getSkillDetails" /\ tasks[t].pc = "details"
    /\ LET cached == MapGet(detailsCache, tasks[t].safeSlug)
       IN  tasks' = [tasks EXCEPT ![t] =
               Done(@, "fallback",
                    Value(IF cached = NULL THEN NULL ELSE cached.data))]
    /\ UNCHANGED <<envVars, cacheVars, storeVars>>

\* ------------------------------------------------------------------ paths
\* A file name is a sequence of characters; "/" and "." are characters of
\* their own, a run of other characters is written as one element.
RECURSIVE Split(_)
\* fileName.split('/')
Split(s) ==
    IF s = <<>> THEN << <<>> >>
    ELSE LET rest == Split(Tail(s))
         IN  IF Head(s) = "/" THEN << <<>> >> \o rest
             ELSE << <<Head(s)>> \o Head(rest) >> \o Tail(rest)

RECURSIVE Join(_)
\* segments.join('/')
Join(segs) ==
    IF segs = <<>> THEN <<>>
    ELSE IF Len(segs) = 1 THEN segs[1]
    ELSE segs[1] \o <<"/">> \o Join(Tail(segs))

DotDot == <<".", ".">>
Dot == <<".">>

\* Mutant: the segments are not filtered.
safeName_Unfiltered(fileName) == fileName

\* Mutant: only empty and '.' segments are dropped.
safeName_KeepsDotDot(fileName) ==
    Join(SelectSeq(Split(fileName), LAMBDA p : p # <<>> /\ p # Dot))

\* fileName.split('/').filter(p => p && p !== '..' && p !== '.').join('/')
safeName(fileName) ==
    Join(SelectSeq(Split(fileName),
                   LAMBDA p : p # <<>> /\ p # DotDot /\ p # Dot))

RECURSIVE Normalize(_, _)
\* The segments of a path after path.join has resolved '.', '..' and empty
\* segments; a '..' that climbs above the skills root stays in front.
Normalize(segs, acc) ==
    IF segs = <<>> THEN acc
    ELSE LET p == Head(segs)
         IN  IF p = <<>> \/ p = Dot THEN Normalize(Tail(segs), acc)
             ELSE IF p = DotDot
             THEN IF acc # <<>> /\ acc[Len(acc)] # DotDot
                  THEN Normalize(Tail(segs), SubSeq(acc, 1, Len(acc) - 1))
                  ELSE Normalize(Tail(segs), Append(acc, p))
             ELSE Normalize(Tail(segs), Append(acc, p))

\* path.join(this.skillsDir, slug, name), relative to the skills root.
PathJoin(slug, name) == Normalize(<<slug>> \o Split(name), <<>>)

EndsWithSlash(fileName) ==
    fileName # <<>> /\ fileName[Len(fileName)] = "/"

\* extractZip: the paths written for the first n entries of the archive.
ExtractedPaths(slug, names, n) ==
    {PathJoin(slug, safeName(names[i])) :
        i \in {j \in 1..n : /\ ~EndsWithSlash(names[j])
                            /\ safeName(names[j]) # <<>>}}

\* ---------------------------------------------------------------- strings
\* Text is a TLA+ string; a slug is the sequence of its characters.
Char(s, i) == SubSeq(s, i, i)

RECURSIVE Chars(_)
Chars(s) == IF Len(s) = 0 THEN <<>> ELSE <<Char(s, 1)>> \o Chars(SubSeq(s, 2, Len(s)))

RECURSIVE Text(_)
Text(slug) == IF slug = <<>> THEN "" ELSE Head(slug) \o Text(Tail(slug))

\* hay.includes(needle)
Includes(hay, needle) ==
    \/ Len(needle) = 0
    \/ \E i \in 1..(Len(hay) - Len(needle) + 1) :
          SubSeq(hay, i, i + Len(needle) - 1) = needle

UpperCase == "ABCDEFGHIJKLMNOPQRSTUVWXYZ"
LowerCase == "abcdefghijklmnopqrstuvwxyz"
Digits == "0123456789"

LowerChar(c) ==
    IF Includes(UpperCase, c)
    THEN Char(LowerCase, CHOOSE i \in 1..Len(UpperCase) : Char(UpperCase, i) = c)
    ELSE c

RECURSIVE toLowerCase(_)
toLowerCase(s) ==
    IF Len(s) = 0 THEN ""
    ELSE LowerChar(Char(s, 1)) \o toLowerCase(SubSeq(s, 2, Len(s)))

RECURSIVE SplitWsFrom(_, _, _)
SplitWsFrom(s, i, word) ==
    IF i > Len(s) THEN <<word>>
    ELSE IF Char(s, i) = " "
    THEN IF i > 1 /\ Char(s, i - 1) = " "
         THEN SplitWsFrom(s, i + 1, word)
         ELSE <<word>> \o SplitWsFrom(s, i + 1, "")
    ELSE SplitWsFrom(s, i + 1, word \o Char(s, i))

\* s.split(/\s+/), the space being the only whitespace of the model's text.
SplitWs(s) == SplitWsFrom(s, 1, "")

RECURSIVE JoinWords(_)
\* words.join(' ')
JoinWords(words) ==
    IF words = <<>> THEN ""
    ELSE IF Len(words) = 1 THEN words[1]
    ELSE words[1] \o " " \o JoinWords(Tail(words))

RECURSIVE ReplaceNonWord(_)
\* s.replace(/[^\w\s-]/g, ' ')
ReplaceNonWord(s) ==
    IF Len(s) = 0 THEN ""
    ELSE (IF Includes(UpperCase \o LowerCase \o Digits \o "_- ", Char(s, 1))
          THEN Char(s, 1) ELSE " ")
         \o ReplaceNonWord(SubSeq(s, 2, Len(s)))

\* ------------------------------------------------------------ local store
SKILL_MD == <<"SKILL", ".", "md">>

\* The lock file: missing, text that JSON.parse rejects ("unparsable"), the
\* JSON text null ("null"), or the JSON object of the records per slug.
LockFile(content, records) == [content |-> content, records |-> records]

NoLockFile == LockFile("missing", EmptyMap)

\* getLockfileVersion(slug): lockfile[slug]?.version || null, written "" for
\* null.  A missing file returns null; JSON.parse of unparsable text and the
\* property read on null throw inside the try, whose catch returns null.
getLockfileVersion(lock, slug) ==
    IF lock.content = "records" /\ slug \in DOMAIN lock.records
    THEN lock.records[slug].version ELSE ""

\* The skill loadSkill builds from the files on disk and the lock record, or
\* NULL when the skill directory has no SKILL.md.  The SKILL.md of a package
\* carries no front matter: name || safeSlug, description || ''.
LoadedFromDisk(slug, disk, lock) ==
    IF <<slug, SKILL_MD>> \notin disk THEN NULL
    ELSE [slug |-> slug,
          name |-> Text(slug),
          description |-> "",
          version |-> IF getLockfileVersion(lock, slug) = "" THEN "local"
                      ELSE getLockfileVersion(lock, slug),
          scripts |-> {f \in disk : Len(f) = 3 /\ f[1] = slug
                                      /\ f[2] = <<"scripts">>},
          cachedAt |-> now]

\* Mutant: a skill already in the store is not replaced.
AfterLoadSkill_KeepsFirst(slug, disk, lock) ==
    IF LoadedFromDisk(slug, disk, lock) = NULL \/ slug \in DOMAIN loadedSkills
    THEN loadedSkills
    ELSE MapSet(loadedSkills, slug, LoadedFromDisk(slug, disk, lock))

\* Mutant: loadSkill returns its skill without storing it.
AfterLoadSkill_NotStored(slug, disk, lock) == loadedSkills

\* this.loadedSkills after loadSkill(slug).
AfterLoadSkill(slug, disk, lock) ==
    IF LoadedFromDisk(slug, disk, lock) = NULL THEN loadedSkills
    ELSE MapSet(loadedSkills, slug, LoadedFromDisk(slug, disk, lock))

\* loadSkill(slug): sanitizeSlug throws to the caller; no SKILL.md gives null.
LoadSkillCall(t, slug) ==
    /\ tasks[t].pc = "idle"
    /\ LET safe == sanitizeSlug(slug)
           call == Call("loadSkill", "direct", slug, FALSE, UNDEF, NULL)
       IN  IF ~safe.ok
           THEN /\ tasks' = [tasks EXCEPT ![t] =
                       Done(call, "throw", Throw("InvalidSlug"))]
                /\ UNCHANGED loadedSkills
           ELSE /\ loadedSkills' = AfterLoadSkill(safe.slug, files, lockfile)
                /\ tasks' = [tasks EXCEPT ![t] =
                       Done([call EXCEPT !.safeSlug = safe.slug,
                                         !.usedFs = TRUE],
                            "read",
                            Value(LoadedFromDisk(safe.slug, files, lockfile)))]
    /\ UNCHANGED <<envVars, cacheVars, lockfile, files>>

\* What a lookup in the loaded skills gives under a sanitized slug.
LookupResult(op, slug) ==
    CASE op = "getLoadedSkill" -> MapGet(loadedSkills, slug)
      [] op = "getSkillInstructions" ->
            IF slug \in DOMAIN loadedSkills
            THEN [instructionsOf |-> slug] ELSE NULL
      [] op = "isInstalled" -> [bool |-> slug \in DOMAIN loadedSkills]

\* What the catch of a lookup returns: undefined, null, false.
LookupCaught(op) ==
    CASE op = "getLoadedSkill" -> UNDEF
      [] op = "getSkillInstructions" -> NULL
      [] op = "isInstalled" -> [bool |-> FALSE]

LookupOps == {"getLoadedSkill", "getSkillInstructions", "isInstalled"}

\* getLoadedSkill, getSkillInstructions, isInstalled: sanitizeSlug inside a
\* try whose catch returns undefined, null, false.
LookupCall(t, op, slug) ==
    /\ tasks[t].pc = "idle"
    /\ op \in LookupOps
    /\ LET safe == sanitizeSlug(slug)
           call == Call(op, "direct", slug, FALSE, UNDEF, NULL)
       IN  tasks' = [tasks EXCEPT ![t] =
              IF safe.ok
              THEN Done([call EXCEPT !.safeSlug = safe.slug], "read",
                        Value(LookupResult(op, safe.slug)))
              ELSE Done(call, "caught", Value(LookupCaught(op)))]
    /\ UNCHANGED <<envVars, cacheVars, storeVars>>

\* ---------------------------------------------------------------- install
LATEST == "latest"

\* Mutant: the requested version is used as it is.
ResolveVersion_KeepsLatest(version, details) == version

\* version === 'latest' ? details.latestVersion.version : version
ResolveVersion(version, details) ==
    IF version = LATEST THEN ToString(details.latestVersion) ELSE version

\* Mutant: the failure is thrown on to the caller.
InstallFailed_Throws(task) == Done(task, "throw", Throw("InstallError"))

\* install returns false from its catch.
InstallFailed(task) == Done(task, "caught", Value([bool |-> FALSE]))

\* The details are known: the download is requested.
InstallDownload(task, details) ==
    [task EXCEPT !.pc = "download", !.requests = @ + 1,
                 !.resolvedVersion = ResolveVersion(task.version, details)]

\* install(slug, version), up to its first await: sanitizeSlug inside the try;
\* then getSkillDetails(safeSlug) under the default policy, answered from the
\* cache or by a request.
InstallStart(caller, slug, version) ==
    LET safe == sanitizeSlug(slug)
        cached == IF safe.ok THEN MapGet(detailsCache, safe.slug) ELSE NULL
        call == [Call("install", caller, slug, FALSE, UNDEF, cached)
                    EXCEPT !.version = version]
        accepted == [call EXCEPT !.safeSlug = IF safe.ok THEN safe.slug
                                               ELSE <<>>]
    IN  IF ~safe.ok THEN InstallFailed(call)
        ELSE IF IsUsable(cached, FALSE, Ms(CACHE_TTL_SKILL_DETAILS))
        THEN InstallDownload(accepted, cached.data)
        ELSE [accepted EXCEPT !.pc = "details", !.requests = 1]

InstallCall(t, slug, version) ==
    /\ tasks[t].pc = "idle"
    /\ tasks' = [tasks EXCEPT ![t] = InstallStart("direct", slug, version)]
    /\ UNCHANGED <<envVars, cacheVars, storeVars>>

\* getSkillDetails inside install answered with response.ok.
InstallDetailsOk(t) ==
    /\ tasks[t].op = "install" /\ tasks[t].pc = "details"
    /\ LET details == SkillDetailsOf(tasks[t].safeSlug, remoteVersion)
       IN  /\ detailsCache' = MapSet(detailsCache, tasks[t].safeSlug,
                                     [data |-> details, cachedAt |-> now])
           /\ tasks' = [tasks EXCEPT ![t] = InstallDownload(@, details)]
    /\ UNCHANGED <<envVars, catalogCache, searchCache, diskCatalog, storeVars>>

\* getSkillDetails inside install answered 404, or failed: null (install
\* throws 'not found' into its catch) unless a stale entry is cached.
InstallDetailsMissing(t, notFound) ==
    /\ tasks[t].op = "install" /\ tasks[t].pc = "details"
    /\ LET cached == MapGet(detailsCache, tasks[t].safeSlug)
       IN  tasks' = [tasks EXCEPT ![t] =
              IF notFound \/ cached = NULL THEN InstallFailed(@)
              ELSE InstallDownload(@, cached.data)]
    /\ UNCHANGED <<envVars, cacheVars, storeVars>>

\* The download failed (non-ok status, rejected fetch or arrayBuffer).
InstallDownloadFail(t) ==
    /\ tasks[t].op = "install" /\ tasks[t].pc = "download"
    /\ tasks' = [tasks EXCEPT ![t] = InstallFailed(@)]
    /\ UNCHANGED <<envVars, cacheVars, storeVars>>

\* Mutant: a package of exactly the limit is rejected too.
TooLarge_Inclusive(size) == size >= MAX_PACKAGE_BYTES

\* zipBuffer.byteLength > 10 * 1024 * 1024
TooLarge(size) == size > MAX_PACKAGE_BYTES

\* The download arrived: an oversized package throws; else the skill
\* directory is made (mkdirSync may throw) and extractZip starts, suspended at
\* its import of the unzip library.
InstallDownloadOk(t, archive, mkdirThrows) ==
    /\ tasks[t].op = "install" /\ tasks[t].pc = "download"
    /\ tasks' = [tasks EXCEPT ![t] =
          IF TooLarge(archive.size)
          THEN InstallFailed([@ EXCEPT !.archive = archive])
          ELSE IF mkdirThrows
          THEN InstallFailed([@ EXCEPT !.usedFs = TRUE, !.archive = archive])
          ELSE [@ EXCEPT !.pc = "extract", !.usedFs = TRUE,
                         !.archive = archive]]
    /\ UNCHANGED <<envVars, cacheVars, storeVars>>

\* Mutant: the records are not read back; the file is written with the one
\* entry.
updateLockfile_FromEmpty(lock, slug, version) ==
    IF lock.content = "null" THEN Throw("TypeError")
    ELSE LockFile("records",
                  MapSet(EmptyMap, slug,
                         [version |-> version, installedAt |-> now]))

\* updateLockfile(slug, version): the records start as {} and are replaced by
\* what JSON.parse gives when the file exists and parses; the slug's entry is
\* set and the file written.  On the JSON text null the assignment
\* lockfile[slug] = ... throws, outside the try around the parse.
updateLockfile(lock, slug, version) ==
    IF lock.content = "null" THEN Throw("TypeError")
    ELSE LockFile("records",
                  MapSet(lock.records, slug,
                         [version |-> version, installedAt |-> now]))

\* extractZip after its import: unzipSync (may throw), then the entries are
\* written in order (written of them before a write throws).
InstallExtract(t, unzipThrows, written) ==
    /\ tasks[t].op = "install" /\ tasks[t].pc = "extract"
    /\ LET names == tasks[t].archive.names
       IN  /\ written \in 0..Len(names)
           /\ IF unzipThrows
              THEN /\ tasks' = [tasks EXCEPT ![t] = InstallFailed(@)]
                   /\ UNCHANGED files
              ELSE /\ files' = files \cup
                          ExtractedPaths(tasks[t].safeSlug, names, written)
                   /\ tasks' = [tasks EXCEPT ![t] =
                          IF written < Len(names) THEN InstallFailed(@)
                          ELSE [@ EXCEPT !.pc = "lock"]]
    /\ UNCHANGED <<envVars, cacheVars, loadedSkills, lockfile>>

\* Mutant: the lock record is written before the failure is noticed.
InstallFinish_WritesFirst(t, lockThrows) ==
    /\ tasks[t].op = "install" /\ tasks[t].pc = "lock"
    /\ LET slug == tasks[t].safeSlug
           lock == updateLockfile(lockfile, slug, tasks[t].resolvedVersion)
       IN  IF lock = Throw("TypeError")
           THEN /\ tasks' = [tasks EXCEPT ![t] = InstallFailed(@)]
                /\ UNCHANGED <<loadedSkills, lockfile>>
           ELSE /\ lockfile' = lock
                /\ loadedSkills' = IF lockThrows THEN loadedSkills
                                   ELSE AfterLoadSkill(slug, files, lock)
                /\ tasks' = [tasks EXCEPT ![t] =
                       IF lockThrows THEN InstallFailed(@)
                       ELSE Done(@, "installed", Value([bool |-> TRUE]))]
    /\ UNCHANGED <<envVars, cacheVars, files>>

\* After extractZip: updateLockfile (mkdirSync and writeFileSync may throw
\* too), loadSkill, return true.
InstallFinish(t, lockThrows) ==
    /\ tasks[t].op = "install" /\ tasks[t].pc = "lock"
    /\ LET slug == tasks[t].safeSlug
           lock == updateLockfile(lockfile, slug, tasks[t].resolvedVersion)
       IN  IF lockThrows \/ lock = Throw("TypeError")
           THEN /\ tasks' = [tasks EXCEPT ![t] = InstallFailed(@)]
                /\ UNCHANGED <<loadedSkills, lockfile>>
           ELSE /\ lockfile' = lock
                /\ loadedSkills' = AfterLoadSkill(slug, files, lock)
                /\ tasks' = [tasks EXCEPT ![t] =
                       Done(@, "installed", Value([bool |-> TRUE]))]
    /\ UNCHANGED <<envVars, cacheVars, files>>

\* --------------------------------------------------------- guidance action
RECURSIVE DropPairs(_, _, _)
\* The words without each pair of a word of firsts followed by one of seconds.
DropPairs(words, firsts, seconds) ==
    IF Len(words) < 2 THEN words
    ELSE IF words[1] \in firsts /\ words[2] \in seconds
    THEN DropPairs(SubSeq(words, 3, Len(words)), firsts, seconds)
    ELSE <<words[1]>> \o DropPairs(Tail(words), firsts, seconds)

stopWords ==
    {"search", "find", "look", "for", "a", "an", "the", "skill", "skills",
     "please", "can", "you", "help", "me", "with", "how", "to", "do", "i",
     "need", "want", "get", "use", "using", "about", "is", "are", "there",
     "any", "some", "show", "list", "give", "tell", "what", "which"}

\* extractSearchTerms(query), for queries whose platform references
\* ("on clawhub", "clawhub registry") are set off by spaces.
extractSearchTerms(query) ==
    LET lower == toLowerCase(query)
        cleaned == JoinWords(
            DropPairs(DropPairs(SplitWs(lower),
                                {"on", "in", "from", "at"}, {"clawhub"}),
                      {"clawhub"},
                      {"registry", "platform", "site", "website", "catalog"}))
        words == SelectSeq(SplitWs(ReplaceNonWord(cleaned)),
                           LAMBDA w : Len(w) > 1 /\ w \notin stopWords)
    IN  IF JoinWords(words) = "" THEN lower ELSE JoinWords(words)

genericWords ==
    {"skill", "agent", "search", "install", "use", "when", "with", "from",
     "your"}

\* The words of the query that findBestLocalMatch compares with.
queryWords(query) ==
    SelectSeq(SplitWs(toLowerCase(query)), LAMBDA w : Len(w) > 2)

\* queryLower.includes(text) || queryWords.some(w => text.includes(w) && w.length > 3)
NameMatches(text, query) ==
    \/ Includes(toLowerCase(query), text)
    \/ \E i \in 1..Len(queryWords(query)) :
          Includes(text, queryWords(query)[i]) /\ Len(queryWords(query)[i]) > 3

\* The number of description words counted by findBestLocalMatch.
DescriptionScore(description, query) ==
    LET descWords == SplitWs(toLowerCase(description))
    IN  Cardinality({i \in 1..Len(descWords) :
            /\ Len(descWords[i]) > 5
            /\ descWords[i] \notin genericWords
            /\ \E j \in 1..Len(queryWords(query)) :
                  queryWords(query)[j] = descWords[i]})

\* The score findBestLocalMatch gives one skill.
LocalScore(skill, query) ==
    (IF NameMatches(toLowerCase(Text(skill.slug)), query) THEN 10 ELSE 0)
    + (IF NameMatches(toLowerCase(skill.name), query) THEN 8 ELSE 0)
    + DescriptionScore(skill.description, query)

\* findBestLocalMatch(skills, query): null, or a skill of the highest score
\* above 0 (the first of them in the order of the loaded skills, which the
\* model leaves open).
findBestLocalMatch(skills, query) ==
    LET scored == {[skill |-> s, score |-> LocalScore(s, query)] : s \in skills}
        positive == {m \in scored : m.score > 0}
    IN  IF positive = {} THEN {NULL}
        ELSE {m \in positive : \A o \in positive : o.score <= m.score}

\* getLoadedSkills()
getLoadedSkills == {loadedSkills[k] : k \in DOMAIN loadedSkills}

\* getLoadedSkill(slug), getSkillInstructions(slug)
getLoadedSkill(slug) ==
    IF sanitizeSlug(slug).ok
    THEN LookupResult("getLoadedSkill", sanitizeSlug(slug).slug)
    ELSE LookupCaught("getLoadedSkill")

getSkillInstructions(slug) ==
    IF sanitizeSlug(slug).ok
    THEN LookupResult("getSkillInstructions", sanitizeSlug(slug).slug)
    ELSE LookupCaught("getSkillInstructions")

\* !value, for the values getLoadedSkill gives
IsFalsy(v) == v = NULL \/ v = UNDEF

\* A relevance score of the remote, a fraction of 1 in hundredths.
Hundredths(n) == [num |-> n, den |-> 100]

\* bestRemote ? bestRemote.score * 100 : 0
remoteScore(bestRemote) ==
    IF bestRemote = NULL THEN 0
    ELSE (bestRemote.score.num * 100) \div bestRemote.score.den

\* Mutant: the floor is taken one hundredth lower.
BelowFloor_Lower(score) == score.num * 100 < 24 * score.den

\* bestRemote.score < 0.25
BelowFloor(score) == score.num * 100 < 25 * score.den

\* localMatch && localMatch.score >= 8
localIsStrong(localMatch) == localMatch # NULL /\ localMatch.score >= 8

\* !bestRemote || (bestRemote.score < 0.25 && !localIsStrong)
NoGoodMatch(localMatch, bestRemote) ==
    \/ bestRemote = NULL
    \/ BelowFloor(bestRemote.score) /\ ~localIsStrong(localMatch)

\* localIsStrong && (!bestRemote || localMatch.score >= remoteScore)
useLocal(localMatch, bestRemote) ==
    /\ localIsStrong(localMatch)
    /\ bestRemote = NULL \/ localMatch.score >= remoteScore(bestRemote)

\* The results the handler returns.  Text is kept as the sequence of its
\* parts; instructions are within the length the result leaves uncut.
TooShortResult == [success |-> FALSE, error |-> "Query too short"]

CaughtResult(error) == [success |-> FALSE, error |-> error]

NoMatchResult(searchTerms) ==
    [success |-> TRUE,
     text |-> <<"I couldn't find a specific skill for", searchTerms>>,
     data |-> [found |-> FALSE, query |-> searchTerms]]

NotUsableResult(bestRemote) ==
    [success |-> TRUE,
     text |-> <<"Found", bestRemote.displayName,
                "skill but couldn't install it">>,
     data |-> [found |-> TRUE, installed |-> FALSE]]

buildSuccessResult(skill, instructions, source) ==
    [success |-> TRUE,
     text |-> <<skill.name>>
              \o (IF source = "installed"
                  THEN <<"Skill installed from ClawHub">> ELSE <<>>)
              \o <<skill.description>>
              \o (IF instructions = NULL THEN <<>> ELSE <<instructions>>),
     values |-> [activeSkill |-> skill.slug, skillName |-> skill.name,
                 skillSource |-> source],
     data |-> [skill |-> [slug |-> skill.slug, name |-> skill.name,
                          description |-> skill.description],
               instructions |-> instructions,
               source |-> source]]

\* The handler returns: the slot keeps its locals with the result.
GuidanceDone(task, via, result) ==
    [task EXCEPT !.op = "getSkillGuidance", !.pc = "done", !.via = via,
                 !.ret = Value(result)]

\* Mutant: a failed install never falls back to the local match.
InstallFallback_NeverLocal(localMatch, bestRemote) ==
    [via |-> "notUsable", result |-> NotUsableResult(bestRemote)]

\* What the handler returns when install gave false.
InstallFallback(localMatch, bestRemote) ==
    IF localMatch # NULL
    THEN [via |-> "localFallback",
          result |-> buildSuccessResult(
                        localMatch.skill,
                        getSkillInstructions(localMatch.skill.slug), "local")]
    ELSE [via |-> "notUsable", result |-> NotUsableResult(bestRemote)]

\* Mutant: the result always names the source 'local'.
RemoteSkillResult_SourceLocal(bestRemote, source) ==
    LET skill == getLoadedSkill(bestRemote.slug)
    IN  IF IsFalsy(skill)
        THEN buildSuccessResult(
                [slug |-> bestRemote.slug, name |-> bestRemote.displayName,
                 description |-> bestRemote.summary], NULL, "local")
        ELSE buildSuccessResult(skill, getSkillInstructions(skill.slug),
                                "local")

\* Step 5: the result built from the loaded skill of the remote candidate, or
\* from the candidate itself when no such skill is loaded.
RemoteSkillResult(bestRemote, source) ==
    LET skill == getLoadedSkill(bestRemote.slug)
    IN  IF IsFalsy(skill)
        THEN buildSuccessResult(
                [slug |-> bestRemote.slug, name |-> bestRemote.displayName,
                 description |-> bestRemote.summary], NULL, source)
        ELSE buildSuccessResult(skill, getSkillInstructions(skill.slug),
                                source)

\* handler, up to the await of service.search(searchTerms, 5): a query of
\* fewer than 3 characters is refused.
GuidanceCall(t, query) ==
    /\ tasks[t].pc = "idle"
    /\ tasks' = [tasks EXCEPT ![t] =
          IF Len(query) < 3
          THEN GuidanceDone(Call("getSkillGuidance", "host", <<query>>,
                                 FALSE, UNDEF, NULL),
                            "tooShort", TooShortResult)
          ELSE [SearchStart("guidance", extractSearchTerms(query), 5,
                            FALSE, UNDEF)
                EXCEPT !.frame = [query |-> query,
                                  searchTerms |-> extractSearchTerms(query),
                                  decided |-> FALSE]]]
    /\ UNCHANGED <<envVars, cacheVars, storeVars>>

\* handler, from the search results to its return or to the await of
\* service.install(bestRemote.slug).
GuidanceDecide(t) ==
    /\ tasks[t].op = "search" /\ tasks[t].pc = "done"
    /\ tasks[t].caller = "guidance"
    /\ \E localMatch \in findBestLocalMatch(getLoadedSkills,
                                            tasks[t].frame.searchTerms) :
          LET searchResults == tasks[t].ret.val
              bestRemote == IF Len(searchResults) > 0 THEN searchResults[1]
                            ELSE NULL
              alreadyInstalled ==
                  IF bestRemote = NULL THEN UNDEF
                  ELSE getLoadedSkill(bestRemote.slug)
              frame == [query |-> tasks[t].frame.query,
                        searchTerms |-> tasks[t].frame.searchTerms,
                        decided |-> TRUE,
                        installedSkills |-> getLoadedSkills,
                        localMatch |-> localMatch,
                        bestRemote |-> bestRemote,
                        alreadyInstalled |-> ~IsFalsy(alreadyInstalled),
                        installCalls |-> 0,
                        installed |-> NULL]
              task == [tasks[t] EXCEPT !.frame = frame]
          IN  tasks' = [tasks EXCEPT ![t] =
                 IF tasks[t].ret.kind = "throw"
                 THEN GuidanceDone(tasks[t], "caught",
                                   CaughtResult(tasks[t].ret.error))
                 ELSE IF NoGoodMatch(localMatch, bestRemote)
                 THEN GuidanceDone(task, "noMatch",
                                   NoMatchResult(frame.searchTerms))
                 ELSE IF useLocal(localMatch, bestRemote)
                 THEN GuidanceDone(task, "local",
                         buildSuccessResult(
                            localMatch.skill,
                            getSkillInstructions(localMatch.skill.slug),
                            "local"))
                 ELSE IF ~IsFalsy(alreadyInstalled)
                 THEN GuidanceDone(task, "alreadyInstalled",
                                   RemoteSkillResult(bestRemote, "local"))
                 ELSE [InstallStart("guidance", bestRemote.slug, LATEST)
                       EXCEPT !.frame = [frame EXCEPT !.installCalls = 1]]]
    /\ UNCHANGED <<envVars, cacheVars, storeVars>>

\* handler, from the result of install to its return.
GuidanceAfterInstall(t) ==
    /\ tasks[t].op = "install" /\ tasks[t].pc = "done"
    /\ tasks[t].caller = "guidance"
    /\ LET frame == tasks[t].frame
       IN  tasks' = [tasks EXCEPT ![t] =
              IF tasks[t].ret.kind = "throw"
              THEN GuidanceDone(@, "caught", CaughtResult(tasks[t].ret.error))
              ELSE IF ~tasks[t].ret.val.bool
              THEN GuidanceDone(
                      [@ EXCEPT !.frame.installed = FALSE],
                      InstallFallback(frame.localMatch, frame.bestRemote).via,
                      InstallFallback(frame.localMatch,
                                      frame.bestRemote).result)
              ELSE GuidanceDone(
                      [@ EXCEPT !.frame.installed = TRUE], "installed",
                      RemoteSkillResult(frame.bestRemote, "installed"))]
    /\ UNCHANGED <<envVars, cacheVars, storeVars>>

\* The host took the handler's result.
GuidanceReturn(t) ==
    /\ tasks[t].op = "getSkillGuidance" /\ tasks[t].pc = "done"
    /\ tasks' = [tasks EXCEPT ![t] = IdleTask]
    /\ UNCHANGED <<envVars, cacheVars, storeVars>>

\* -------------------------------------------------------------- providers
Providers == {"skillsOverviewProvider", "skillsSummaryProvider",
              "skillInstructionsProvider", "catalogAwarenessProvider"}

\* skillsOverviewProvider.get: getCatalogStats() and getLoadedSkills(), then
\* await service.getCatalog({ notOlderThan: Infinity }).
skillsOverviewProviderGet(t) ==
    GetCatalogCall(t, "skillsOverviewProvider", FALSE, Infinity)

\* catalogAwarenessProvider.get: '' unless the message is about
\* capabilities; else await service.getCatalogMedRes({ notOlderThan: Infinity }),
\* which calls getCatalog with the same options.
catalogAwarenessProviderGet(t, aboutCapabilities) ==
    IF aboutCapabilities
    THEN GetCatalogCall(t, "catalogAwarenessProvider", FALSE, Infinity)
    ELSE /\ tasks[t].pc = "idle"
         /\ tasks' = [tasks EXCEPT ![t] =
                Done(Call("none", "catalogAwarenessProvider", <<>>, FALSE,
                          UNDEF, NULL), "read", Value(<<>>))]
         /\ UNCHANGED <<envVars, cacheVars, storeVars>>

\* skillsSummaryProvider.get and skillInstructionsProvider.get read
\* getLoadedSkills() (and getSkillInstructions of one of them) and nothing else.
LoadedSkillsProviderGet(t, provider) ==
    /\ tasks[t].pc = "idle"
    /\ tasks' = [tasks EXCEPT ![t] =
           Done(Call("getLoadedSkills", provider, <<>>, FALSE, UNDEF, NULL),
                "read", Value(DOMAIN loadedSkills))]
    /\ UNCHANGED <<envVars, cacheVars, storeVars>>

\* ---------------------------------------------------- search skills action
\* stats.downloads of a catalog entry: the remote does not list by downloads;
\* the entries of a later page have more.
DownloadsOf(item) == item.page * 100

RECURSIVE InsertByDownloads(_, _)
\* x put into a sequence in descending order of downloads, after the entries
\* that compare equal (Array.prototype.sort is stable).
InsertByDownloads(sorted, x) ==
    IF sorted = <<>> THEN <<x>>
    ELSE IF DownloadsOf(sorted[Len(sorted)]) >= DownloadsOf(x)
    THEN Append(sorted, x)
    ELSE Append(InsertByDownloads(SubSeq(sorted, 1, Len(sorted) - 1), x),
                sorted[Len(sorted)])

RECURSIVE sortByDownloads(_)
\* catalog.sort((a, b) => (b.stats.downloads || 0) - (a.stats.downloads || 0))
sortByDownloads(catalog) ==
    IF catalog = <<>> THEN <<>>
    ELSE InsertByDownloads(
            sortByDownloads(SubSeq(catalog, 1, Len(catalog) - 1)),
            catalog[Len(catalog)])

\* .slice(0, 10)
Top10(catalog) ==
    SubSeq(catalog, 1, IF Len(catalog) < 10 THEN Len(catalog) ELSE 10)

\* handler, up to its await; searchTerms is what extractSearchQuery made of
\* the message.  Without search terms it awaits service.getCatalog(), with
\* them service.search(searchTerms, 10).
SearchSkillsCall(t, searchTerms) ==
    /\ tasks[t].pc = "idle"
    /\ tasks' = [tasks EXCEPT ![t] =
          [(IF Len(searchTerms) < 2
            THEN GetCatalogStart("searchSkills", FALSE, UNDEF)
            ELSE SearchStart("searchSkills", searchTerms, 10, FALSE, UNDEF))
           EXCEPT !.frame = [searchTerms |-> searchTerms]]]
    /\ UNCHANGED <<envVars, cacheVars, storeVars>>

\* handler, after getCatalog() returned: the array it returned is sorted in
\* place and its first ten entries are listed.  getCatalog returns the array
\* of this.catalogCache (on a hit, after a fetch, and from its catch), so
\* the cached catalog is sorted with it; the [] of an empty cache is not
\* shared.
SearchSkillsPopular(t) ==
    /\ tasks[t].op = "getCatalog" /\ tasks[t].pc = "done"
    /\ tasks[t].caller = "searchSkills"
    /\ LET catalog == tasks[t].ret.val
           sorted == sortByDownloads(catalog)
       IN  /\ catalogCache' =
                 IF catalogCache # NULL /\ catalogCache.data = catalog
                 THEN [catalogCache EXCEPT !.data = sorted]
                 ELSE catalogCache
           /\ tasks' = [tasks EXCEPT ![t] =
                 [@ EXCEPT !.op = "searchSkills", !.caller = "host",
                           !.via = "popular",
                           !.ret = Value([success |-> TRUE,
                                          skills |-> Top10(sorted),
                                          total |-> Len(catalog)])]]
    /\ UNCHANGED <<envVars, searchCache, detailsCache, diskCatalog, storeVars>>

\* handler, after search() returned: the results are listed, or 'No skills
\* found'.
SearchSkillsResults(t) ==
    /\ tasks[t].op = "search" /\ tasks[t].pc = "done"
    /\ tasks[t].caller = "searchSkills"
    /\ LET results == tasks[t].ret.val
       IN  tasks' = [tasks EXCEPT ![t] =
              [@ EXCEPT !.op = "searchSkills", !.caller = "host",
                        !.via = IF results = <<>> THEN "noResults"
                                ELSE "results",
                        !.ret = Value([success |-> TRUE,
                                       found |-> results # <<>>,
                                       results |-> results])]]
    /\ UNCHANGED <<envVars, cacheVars, storeVars>>

\* -------------------------------------------------------------- lifecycle
\* The caller took the result; the slot is free again.
Return(t) ==
    /\ tasks[t].pc = "done"
    /\ tasks[t].caller \notin {"syncCatalog", "searchSkills"}
    /\ tasks' = [tasks EXCEPT ![t] = IdleTask]
    /\ UNCHANGED <<envVars, cacheVars, storeVars>>

\* Mutant: the snapshot is stamped with the instant of the start.
loadCatalogFromDisk_Fresh(file) ==
    IF file = NULL \/ ~file.parses THEN NULL
    ELSE [file.value EXCEPT !.cachedAt = now]

\* this.catalogCache after loadCatalogFromDisk(): a missing file returns,
\* JSON.parse of unparsable text throws into the empty catch, and the parsed
\* value is assigned as it is when cached.data && cached.cachedAt (an array
\* is truthy, the number 0 is not).
loadCatalogFromDisk(file) ==
    IF file = NULL \/ ~file.parses THEN NULL
    ELSE IF file.value.cachedAt = 0 THEN NULL
    ELSE file.value

\* this.loadedSkills after loadInstalledSkills(): loadSkill of every
\* directory of the skills directory; those without SKILL.md are skipped.
loadInstalledSkills(disk, lock) ==
    [slug \in {f[1] : f \in {g \in disk : g[2] = SKILL_MD}} |->
        LoadedFromDisk(slug, disk, lock)]

\* The process starts again: a new service is constructed and initialized
\* over the files the last one left; the calls in flight are gone with it.
Start ==
    /\ loadedSkills' = loadInstalledSkills(files, lockfile)
    /\ catalogCache' = loadCatalogFromDisk(diskCatalog)
    /\ searchCache' = EmptyMap
    /\ detailsCache' = EmptyMap
    /\ tasks' = [t \in Tasks |-> IdleTask]
    /\ stopped' = FALSE
    /\ UNCHANGED <<now, ticks, remoteVersion, timers, diskCatalog, lockfile,
                   files>>

\* stop(): the loaded skills and the three caches are cleared.
Stop ==
    /\ loadedSkills' = EmptyMap
    /\ catalogCache' = NULL
    /\ searchCache' = EmptyMap
    /\ detailsCache' = EmptyMap
    /\ stopped' = TRUE
    /\ UNCHANGED <<now, ticks, remoteVersion, timers, diskCatalog, lockfile,
                   files, tasks>>

\* ------------------------------------------------------------- sync task
SYNC_INTERVAL_MS == 1000 * 60 * 60
INITIAL_DELAY_MS == 5000

NoTimers ==
    [timeout |-> "none", interval |-> "none", cleaned |-> FALSE,
     startedAt |-> 0, fired |-> 0, invoked |-> 0]

\* startSyncTask(runtime): setTimeout(handler, 5000) and
\* setInterval(handler, intervalMs), both armed at the same instant.  fired
\* counts the runs of the interval callback, invoked those of the handler.
startSyncTask ==
    [timeout |-> "pending", interval |-> "active", cleaned |-> FALSE,
     startedAt |-> now, fired |-> 0, invoked |-> 0]

\* The instants at which an armed timer is due next.
DueInstants ==
    (IF timers.timeout = "pending"
     THEN {timers.startedAt + INITIAL_DELAY_MS} ELSE {})
    \cup (IF timers.interval = "active" /\ timers.fired < MaxPeriods
          THEN {timers.startedAt + (timers.fired + 1) * SYNC_INTERVAL_MS}
          ELSE {})

\* Time passes until the next armed timer is due; a timer that is due runs
\* its callback before time passes on.
TimerElapse ==
    /\ DueInstants # {}
    /\ \A d \in DueInstants : d > now
    /\ now' \in {d \in DueInstants : \A e \in DueInstants : d <= e}
    /\ UNCHANGED <<ticks, remoteVersion, timers, stopped, cacheVars,
                 storeVars, tasks>>

\* syncCatalogTask.handler(runtime), up to its await: without the service it
\* warns and returns; with it, it awaits service.syncCatalog().
HandlerStart(hasService) ==
    IF hasService THEN SyncCatalogStart("handler")
    ELSE Done(Call("syncCatalogTask", "handler", <<>>, FALSE, UNDEF, NULL),
              "noService", Value(UNDEF))

\* The callback of setTimeout runs, once.
TimeoutFires(t, hasService) ==
    /\ timers.timeout = "pending"
    /\ now >= timers.startedAt + INITIAL_DELAY_MS
    /\ tasks[t].pc = "idle"
    /\ timers' = [timers EXCEPT !.timeout = "fired", !.invoked = @ + 1]
    /\ tasks' = [tasks EXCEPT ![t] = HandlerStart(hasService)]
    /\ UNCHANGED <<now, ticks, remoteVersion, stopped, cacheVars, storeVars>>

\* Mutant: the interval is disarmed by its first run.
IntervalFires_Once(t, hasService) ==
    /\ timers.interval = "active"
    /\ now >= timers.startedAt + (timers.fired + 1) * SYNC_INTERVAL_MS
    /\ tasks[t].pc = "idle"
    /\ timers' = [timers EXCEPT !.fired = @ + 1, !.invoked = @ + 1,
                                 !.interval = "cleared"]
    /\ tasks' = [tasks EXCEPT ![t] = HandlerStart(hasService)]
    /\ UNCHANGED <<now, ticks, remoteVersion, stopped, cacheVars, storeVars>>

\* The callback of setInterval runs, and the interval stays armed.
IntervalFires(t, hasService) ==
    /\ timers.interval = "active"
    /\ now >= timers.startedAt + (timers.fired + 1) * SYNC_INTERVAL_MS
    /\ tasks[t].pc = "idle"
    /\ timers' = [timers EXCEPT !.fired = @ + 1, !.invoked = @ + 1]
    /\ tasks' = [tasks EXCEPT ![t] = HandlerStart(hasService)]
    /\ UNCHANGED <<now, ticks, remoteVersion, stopped, cacheVars, storeVars>>

\* Mutant: the cleanup clears the timeout only.
Cleanup_KeepsInterval ==
    /\ timers.interval = "active" /\ ~timers.cleaned
    /\ timers' = [timers EXCEPT
                     !.timeout = IF @ = "pending" THEN "cleared" ELSE @,
                     !.cleaned = TRUE]
    /\ UNCHANGED <<now, ticks, remoteVersion, stopped, cacheVars, storeVars, tasks>>

\* The cleanup function startSyncTask returned: clearTimeout(initialTimeout),
\* a no-op once the timeout has run, and clearInterval(interval).
Cleanup ==
    /\ timers.interval = "active" /\ ~timers.cleaned
    /\ timers' = [timers EXCEPT
                     !.timeout = IF @ = "pending" THEN "cleared" ELSE @,
                     !.interval = "cleared",
                     !.cleaned = TRUE]
    /\ UNCHANGED <<now, ticks, remoteVersion, stopped, cacheVars, storeVars, tasks>>

\* ------------------------------------------------------------ environment
\* The remote publishes a new version of its content.
RemotePublish ==
    /\ remoteVersion < MaxRemoteVersion
    /\ remoteVersion' = remoteVersion + 1
    /\ UNCHANGED <<now, ticks, timers, stopped, cacheVars,
                 storeVars, tasks>>

\* The instants around which a cached entry crosses its default TTL.
Around(entry, ttl) ==
    IF entry = NULL THEN {} ELSE {entry.cachedAt + ttl + d : d \in {-1, 0, 1}}

Boundaries ==
    Around(catalogCache, CACHE_TTL_CATALOG)
    \cup UNION {Around(searchCache[k], CACHE_TTL_SEARCH) :
                    k \in DOMAIN searchCache}
    \cup UNION {Around(detailsCache[k], CACHE_TTL_SKILL_DETAILS) :
                    k \in DOMAIN detailsCache}

\* Time passes, up to one of the given instants.
Elapse(maxTicks, instants) ==
    /\ ticks < maxTicks
    /\ ticks' = ticks + 1
    /\ now' \in {i \in instants : i > now}
    /\ UNCHANGED <<remoteVersion, timers, stopped, cacheVars,
                 storeVars, tasks>>

\* Time passes, up to an instant around a TTL boundary of a cached entry.
Tick(maxTicks) ==
    /\ ticks < maxTicks
    /\ ticks' = ticks + 1
    /\ now' \in {b \in Boundaries : b > now}
    /\ UNCHANGED <<remoteVersion, timers, stopped, cacheVars,
                 storeVars, tasks>>

\* ---------------------------------------------------------- specifications
\* After construction and initialize(): the catalog cache is seeded from the
\* snapshot file when there is one, written just now or one TTL ago.
Init ==
    /\ now = StartTime
    /\ ticks = 0
    /\ remoteVersion = 1
    /\ timers = NoTimers
    /\ stopped = FALSE
    /\ diskCatalog \in
          {NULL,
           JsonText([data |-> OldSnapshot, cachedAt |-> StartTime]),
           JsonText([data |-> OldSnapshot,
                     cachedAt |-> StartTime - CACHE_TTL_CATALOG])}
    /\ catalogCache = loadCatalogFromDisk(diskCatalog)
    /\ searchCache = EmptyMap
    /\ detailsCache = EmptyMap
    /\ loadedSkills = EmptyMap
    /\ lockfile = NoLockFile
    /\ files = {}
    /\ tasks = [t \in Tasks |-> IdleTask]

NotOlderThanInputs == {UNDEF, Infinity}
CacheQueries == {"browser"}
CacheLimits == {10}
CacheSlugs == {<<"a">>, <<"a", "/">>}

\* The three caches under sequential calls: one call at a time, through every
\* policy, with the clock crossing the TTL boundaries.  The catalog has one
\* page here and its snapshot file is writable; SpecRefresh covers the
\* paginated refresh and the failing write.
NextCache ==
    \/ \E force \in BOOLEAN, nt \in NotOlderThanInputs :
          GetCatalogCall("t1", "direct", force, nt)
    \/ GetCatalogPageOk("t1", FALSE, TRUE)
    \/ GetCatalogPageFail("t1")
    \/ \E q \in CacheQueries, l \in CacheLimits, force \in BOOLEAN,
          nt \in NotOlderThanInputs : SearchCall("t1", "direct", q, l, force, nt)
    \/ SearchOk("t1", FALSE)
    \/ SearchFail("t1")
    \/ \E slug \in CacheSlugs, force \in BOOLEAN, nt \in NotOlderThanInputs :
          GetSkillDetailsCall("t1", "direct", slug, force, nt)
    \/ GetSkillDetailsOk("t1")
    \/ GetSkillDetailsNotFound("t1")
    \/ GetSkillDetailsFail("t1")
    \/ skillsOverviewProviderGet("t1")
    \/ \E about \in BOOLEAN : catalogAwarenessProviderGet("t1", about)
    \/ \E p \in {"skillsSummaryProvider", "skillInstructionsProvider"} :
          LoadedSkillsProviderGet("t1", p)
    \/ Return("t1")
    \/ Stop
    \/ RemotePublish
    \/ Tick(CacheTicks)

SpecCache == Init /\ [][NextCache]_vars

\* The paginated catalog refresh under concurrency: two calls in flight,
\* suspended at the await of each page, with readers between them.  The clock
\* stands still: a refresh starts on forceRefresh, on an empty cache or on the
\* expired snapshot of the warm start.
NextRefresh ==
    \/ \E t \in Tasks, force \in BOOLEAN, nt \in NotOlderThanInputs :
          GetCatalogCall(t, "direct", force, nt)
    \/ \E t \in Tasks, hasNext \in BOOLEAN, written \in BOOLEAN :
          GetCatalogPageOk(t, hasNext, written)
    \/ \E t \in Tasks : GetCatalogPageFail(t)
    \/ \E t \in Tasks : GetCatalogStats(t)
    \/ \E t \in Tasks : Return(t)
    \/ RemotePublish

SpecRefresh == Init /\ [][NextRefresh]_vars

\* ---- inputs of SpecInstall
Long(n) == [i \in 1..n |-> "a"]

SlugInputs ==
    {<<"a">>, Long(MAX_SLUG_LENGTH),
     <<>>, Long(MAX_SLUG_LENGTH + 1), <<"a", "/">>, <<".", ".">>, <<"a", " ">>}

VersionInputs == {LATEST, "0.9"}

EvilName == <<".", ".", "/", ".", ".", "/", "evil">>
EmptySegmentName == <<"a", "/", "/", "b">>
ScriptName == <<"scripts", "/", "run">>
AbsoluteName == <<"/", "etc", "/", ".", "/", "x">>

ArchiveNames ==
    {<<SKILL_MD, ScriptName>>, <<SKILL_MD, EvilName>>,
     <<EmptySegmentName, <<"scripts", "/">> >>, <<DotDot>>,
     <<AbsoluteName>>}

Archives ==
    {[size |-> n, names |-> a] :
        n \in {1, MAX_PACKAGE_BYTES, MAX_PACKAGE_BYTES + 1}, a \in ArchiveNames}

InstallSlugs == {<<"a">>, <<"a", "/">>}
PlainArchive == [size |-> 1, names |-> <<SKILL_MD, ScriptName>>]

\* The operations that take a slug, called one at a time with valid and
\* invalid slugs up to the length limit; install of a plain archive.
NextSlug ==
    \/ \E slug \in SlugInputs, force \in BOOLEAN :
          GetSkillDetailsCall("t1", "direct", slug, force, UNDEF)
    \/ GetSkillDetailsOk("t1")
    \/ GetSkillDetailsNotFound("t1")
    \/ GetSkillDetailsFail("t1")
    \/ \E slug \in SlugInputs : LoadSkillCall("t1", slug)
    \/ \E slug \in SlugInputs, op \in LookupOps : LookupCall("t1", op, slug)
    \/ \E slug \in SlugInputs : InstallCall("t1", slug, LATEST)
    \/ InstallDetailsOk("t1")
    \/ \E notFound \in BOOLEAN : InstallDetailsMissing("t1", notFound)
    \/ InstallDownloadFail("t1")
    \/ InstallDownloadOk("t1", PlainArchive, FALSE)
    \/ \E unzipThrows \in BOOLEAN : InstallExtract("t1", unzipThrows, 2)
    \/ \E lockThrows \in BOOLEAN : InstallFinish("t1", lockThrows)
    \/ Return("t1")

SpecSlug == Init /\ [][NextSlug]_vars

\* install of one slug through every archive and every outcome of its steps.
NextInstall ==
    \/ \E slug \in InstallSlugs, v \in VersionInputs :
          InstallCall("t1", slug, v)
    \/ InstallDetailsOk("t1")
    \/ \E notFound \in BOOLEAN : InstallDetailsMissing("t1", notFound)
    \/ InstallDownloadFail("t1")
    \/ \E a \in Archives, mkdirThrows \in BOOLEAN :
          InstallDownloadOk("t1", a, mkdirThrows)
    \/ \E unzipThrows \in BOOLEAN, written \in 0..2 :
          InstallExtract("t1", unzipThrows, written)
    \/ \E lockThrows \in BOOLEAN : InstallFinish("t1", lockThrows)
    \/ \E slug \in InstallSlugs : LoadSkillCall("t1", slug)
    \/ \E slug \in InstallSlugs, op \in LookupOps : LookupCall("t1", op, slug)
    \/ Return("t1")
    \/ RemotePublish

SpecInstall == Init /\ [][NextInstall]_vars

\* ---- inputs of SpecGuidance
BabylonSkill ==
    [slug |-> Chars("babylon"), name |-> "babylon",
     description |-> "prediction market game", version |-> "local",
     scripts |-> {}, cachedAt |-> StartTime]

NotesSkill ==
    [slug |-> Chars("notes"), name |-> "notes",
     description |-> "tracks every account balance", version |-> "local",
     scripts |-> {}, cachedAt |-> StartTime]

\* The skills found on disk by initialize().
InstalledAtStart == {{}, {BabylonSkill}, {NotesSkill}}

GuidanceQueries ==
    {"hi", "what's my babylon balance", "browser automation help"}

SearchResult(slug, n) ==
    [slug |-> Chars(slug), score |-> Hundredths(n), displayName |-> slug,
     summary |-> "", version |-> "1"]

GuidanceResults ==
    {<<>>,
     <<SearchResult("agent-browser", 90), SearchResult("babylon", 25)>>,
     <<SearchResult("bad slug", 90)>>}
    \cup {<<SearchResult(slug, n)>> :
             slug \in {"agent-browser", "babylon"}, n \in {1, 18, 19, 24, 25}}

NoManifestArchive == [size |-> 1, names |-> <<ScriptName>>]

\* After initialize() has loaded the skills on disk; no catalog snapshot.
InitGuidance ==
    /\ now = StartTime
    /\ ticks = 0
    /\ remoteVersion = 1
    /\ timers = NoTimers
    /\ stopped = FALSE
    /\ diskCatalog = NULL
    /\ catalogCache = NULL
    /\ searchCache = EmptyMap
    /\ detailsCache = EmptyMap
    /\ \E skills \in InstalledAtStart :
          /\ loadedSkills = [k \in {s.slug : s \in skills} |->
                                CHOOSE s \in skills : s.slug = k]
          /\ files = {<<s.slug, SKILL_MD>> : s \in skills}
    /\ lockfile = NoLockFile
    /\ tasks = [t \in Tasks |-> IdleTask]

\* One guidance request at a time, through every answer of the remote search
\* and every outcome of the install it may start.
NextGuidance ==
    \/ \E query \in GuidanceQueries : GuidanceCall("t1", query)
    \/ \E results \in GuidanceResults : SearchAnswered("t1", results)
    \/ SearchFail("t1")
    \/ GuidanceDecide("t1")
    \/ InstallDetailsOk("t1")
    \/ \E notFound \in BOOLEAN : InstallDetailsMissing("t1", notFound)
    \/ InstallDownloadFail("t1")
    \/ \E a \in {PlainArchive, NoManifestArchive} :
          InstallDownloadOk("t1", a, FALSE)
    \/ \E unzipThrows \in BOOLEAN, written \in 1..2 :
          InstallExtract("t1", unzipThrows, written)
    \/ \E lockThrows \in BOOLEAN : InstallFinish("t1", lockThrows)
    \/ GuidanceAfterInstall("t1")
    \/ GuidanceReturn("t1")

SpecGuidance == InitGuidance /\ [][NextGuidance]_vars

\* ---- inputs of SpecScore
\* A skill whose description shares eight words of more than five letters
\* with a request about bookkeeping, and whose slug and name share none.
BooksSkill ==
    [slug |-> Chars("books"), name |-> "books",
     description |->
        "record invoice payment receipt billing customer refund ledger",
     version |-> "local", scripts |-> {}, cachedAt |-> StartTime]

ScoredAtStart ==
    {{BabylonSkill}, {NotesSkill}, {BooksSkill}, {NotesSkill, BooksSkill}}

ScoreQueries ==
    {"what's my babylon balance",
     "track account balance",
     "record customer invoice payment receipt billing refund ledger"}

\* Remote answers that never outscore a strong local match.
ScoreResults ==
    {<<>>, <<SearchResult("agent-browser", 7)>>}

InitScore ==
    /\ now = StartTime
    /\ ticks = 0
    /\ remoteVersion = 1
    /\ timers = NoTimers
    /\ stopped = FALSE
    /\ diskCatalog = NULL
    /\ catalogCache = NULL
    /\ searchCache = EmptyMap
    /\ detailsCache = EmptyMap
    /\ \E skills \in ScoredAtStart :
          /\ loadedSkills = [k \in {s.slug : s \in skills} |->
                                CHOOSE s \in skills : s.slug = k]
          /\ files = {<<s.slug, SKILL_MD>> : s \in skills}
    /\ lockfile = NoLockFile
    /\ tasks = [t \in Tasks |-> IdleTask]

\* Guidance requests, one at a time, scored against the loaded skills:
\* matches by slug and name, by a few description words, and by many.
NextScore ==
    \/ \E query \in ScoreQueries : GuidanceCall("t1", query)
    \/ \E results \in ScoreResults : SearchAnswered("t1", results)
    \/ SearchFail("t1")
    \/ GuidanceDecide("t1")
    \/ GuidanceReturn("t1")

SpecScore == InitScore /\ [][NextScore]_vars

\* ---- inputs of SpecKeys
KeyQueries == {"browser"}
KeyLimits == {5, 10}
KeySlugs == {<<"a">>, <<"b">>}

\* The three caches with two search keys and two slugs in use: every call of
\* the catalog, the search and the detail lookup, answered or failed, with
\* entries of the other keys already cached.  The clock stands still: an
\* entry is refetched on forceRefresh.
NextKeys ==
    \/ \E force \in BOOLEAN : GetCatalogCall("t1", "direct", force, UNDEF)
    \/ GetCatalogPageOk("t1", FALSE, TRUE)
    \/ GetCatalogPageFail("t1")
    \/ GetCatalogStats("t1")
    \/ \E q \in KeyQueries, l \in KeyLimits, force \in BOOLEAN :
          SearchCall("t1", "direct", q, l, force, UNDEF)
    \/ \E noResults \in BOOLEAN : SearchOk("t1", noResults)
    \/ SearchFail("t1")
    \/ \E slug \in KeySlugs, force \in BOOLEAN :
          GetSkillDetailsCall("t1", "direct", slug, force, UNDEF)
    \/ GetSkillDetailsOk("t1")
    \/ GetSkillDetailsNotFound("t1")
    \/ GetSkillDetailsFail("t1")
    \/ \E about \in BOOLEAN : catalogAwarenessProviderGet("t1", about)
    \/ Return("t1")
    \/ RemotePublish

SpecKeys == Init /\ [][NextKeys]_vars

\* ---- SpecSync and SpecTimers
\* After plugin init: the service is initialized over no snapshot or a
\* snapshot of one entry, and startSyncTask has armed its timers.
InitSync(armed) ==
    /\ now = StartTime
    /\ ticks = 0
    /\ remoteVersion = 1
    /\ timers = armed
    /\ stopped = FALSE
    /\ diskCatalog \in
          {NULL, JsonText([data |-> OldSnapshot, cachedAt |-> StartTime])}
    /\ catalogCache = loadCatalogFromDisk(diskCatalog)
    /\ searchCache = EmptyMap
    /\ detailsCache = EmptyMap
    /\ loadedSkills = EmptyMap
    /\ lockfile = NoLockFile
    /\ files = {}
    /\ tasks = [t \in Tasks |-> IdleTask]

\* What a call in flight waits for: the answer to its request, its
\* continuation, the return to its caller.
Proceed(t, morePages) ==
    \/ \E hasNext \in morePages : GetCatalogPageOk(t, hasNext, TRUE)
    \/ GetCatalogPageFail(t)
    \/ SyncCatalogReturn(t)
    \/ Return(t)

\* syncCatalog called while another sync may be in flight, over catalogs of
\* every number of pages; the timers are left out, and the clock stands still.
NextSync ==
    \/ \E t \in Tasks : SyncCatalogCall(t)
    \/ \E t \in Tasks : Proceed(t, BOOLEAN)

SpecSync == InitSync(NoTimers) /\ [][NextSync]_vars

\* The periodic sync: the timers run the handler, with or without the
\* service, while an earlier sync may still be in flight; the cleanup may be
\* called at any time.  The catalog has one page.
NextTimers ==
    \/ TimerElapse
    \/ \E t \in Tasks, hasService \in BOOLEAN : TimeoutFires(t, hasService)
    \/ \E t \in Tasks, hasService \in BOOLEAN : IntervalFires(t, hasService)
    \/ Cleanup
    \/ \E t \in Tasks : Proceed(t, {FALSE})

\* The event loop runs a timer callback that is due and lets time pass, and
\* every request is answered.
SpecTimers ==
    /\ InitSync(startSyncTask)
    /\ [][NextTimers]_vars
    /\ WF_vars(TimerElapse)
    /\ WF_vars(\E t \in Tasks, hasService \in BOOLEAN :
                  TimeoutFires(t, hasService))
    /\ WF_vars(\E t \in Tasks, hasService \in BOOLEAN :
                  IntervalFires(t, hasService))
    /\ \A t \in Tasks : WF_vars(Proceed(t, {FALSE}))

\* ---- SpecWarm
WarmTicks == 2

\* The snapshot file as a start finds it: missing, unparsable, or written
\* just now, or one instant less than, exactly, or one instant more than the
\* catalog TTL ago.
InitWarm ==
    /\ now = StartTime
    /\ ticks = 0
    /\ remoteVersion = 1
    /\ timers = NoTimers
    /\ stopped = FALSE
    /\ diskCatalog \in
          {NULL, Unparsable}
          \cup {JsonText([data |-> OldSnapshot,
                          cachedAt |-> StartTime - CACHE_TTL_CATALOG + d]) :
                   d \in {-1, 0, 1, CACHE_TTL_CATALOG}}
    /\ catalogCache = loadCatalogFromDisk(diskCatalog)
    /\ searchCache = EmptyMap
    /\ detailsCache = EmptyMap
    /\ loadedSkills = EmptyMap
    /\ lockfile = NoLockFile
    /\ files = {}
    /\ tasks = [t \in Tasks |-> IdleTask]

\* Warm starts: reads of the catalog under the default policy and forced
\* refreshes, whose snapshot write may fail, as time crosses the TTL, with
\* the service stopped and the process started again in between.
NextWarm ==
    \/ \E force \in BOOLEAN : GetCatalogCall("t1", "direct", force, UNDEF)
    \/ \E written \in BOOLEAN : GetCatalogPageOk("t1", FALSE, written)
    \/ GetCatalogPageFail("t1")
    \/ Return("t1")
    \/ Stop
    \/ Start
    \/ RemotePublish
    \/ Tick(WarmTicks)

SpecWarm == InitWarm /\ [][NextWarm]_vars

\* ---- inputs of SpecLoad and SpecLock
LoadTicks == 2
LoadSlugs == {<<"a">>, <<"b">>, <<"a", "/">>}

\* The skills directory as a start finds it: empty, or holding skill a with
\* its SKILL.md, with a script, or without its SKILL.md.
FilesAtStart ==
    {{}, {<< <<"a">>, SKILL_MD >>},
     {<< <<"a">>, SKILL_MD >>, << <<"a">>, <<"scripts">>, <<"run">> >>},
     {<< <<"a">>, <<"scripts">>, <<"run">> >>}}

\* The lock file as a start finds it: missing, unparsable, the JSON text
\* null, or the records of skill a or of skill b.
LocksAtStart ==
    {NoLockFile, LockFile("unparsable", EmptyMap), LockFile("null", EmptyMap)}
    \cup {LockFile("records",
                   [k \in {slug} |->
                       [version |-> "0.9", installedAt |-> StartTime - 1]]) :
             slug \in {<<"a">>, <<"b">>}}

InitStore ==
    /\ now = StartTime
    /\ ticks = 0
    /\ remoteVersion = 1
    /\ timers = NoTimers
    /\ stopped = FALSE
    /\ diskCatalog = NULL
    /\ catalogCache = NULL
    /\ searchCache = EmptyMap
    /\ detailsCache = EmptyMap
    /\ loadedSkills = EmptyMap
    /\ lockfile \in LocksAtStart
    /\ files \in FilesAtStart
    /\ tasks = [t \in Tasks |-> IdleTask]

\* loadSkill and the lookups over a skills directory and a lock file that
\* nothing changes, called again and again as time passes; the result of a
\* call stays with its caller until the caller takes it.
NextLoad ==
    \/ \E t \in Tasks, slug \in LoadSlugs : LoadSkillCall(t, slug)
    \/ \E slug \in LoadSlugs, op \in LookupOps : LookupCall("t1", op, slug)
    \/ \E t \in Tasks : Return(t)
    \/ Elapse(LoadTicks, {now + 1})

SpecLoad == InitStore /\ [][NextLoad]_vars

\* install over every lock file a start can find, followed by loads.  The
\* disk is writable: the lock step fails only on what the lock file holds.
NextLock ==
    \/ \E slug \in InstallSlugs, v \in VersionInputs :
          InstallCall("t1", slug, v)
    \/ InstallDetailsOk("t1")
    \/ \E notFound \in BOOLEAN : InstallDetailsMissing("t1", notFound)
    \/ InstallDownloadFail("t1")
    \/ \E a \in {PlainArchive, NoManifestArchive}, mkdirThrows \in BOOLEAN :
          InstallDownloadOk("t1", a, mkdirThrows)
    \/ \E unzipThrows \in BOOLEAN : InstallExtract("t1", unzipThrows, 2)
    \/ InstallFinish("t1", FALSE)
    \/ \E slug \in InstallSlugs : LoadSkillCall("t1", slug)
    \/ Return("t1")

SpecLock == InitStore /\ [][NextLock]_vars

\* ---- SpecInstalls
\* Two installs of different slugs, a in one slot and b in the other,
\* interleaved at every await, over every lock file a start can find; each
\* may fail at its download or at its lock step.
NextInstalls ==
    \/ \E v \in VersionInputs : InstallCall("t1", <<"a">>, v)
    \/ \E v \in VersionInputs : InstallCall("t2", <<"b">>, v)
    \/ \E t \in Tasks : InstallDetailsOk(t)
    \/ \E t \in Tasks : InstallDownloadFail(t)
    \/ \E t \in Tasks, a \in {PlainArchive, NoManifestArchive} :
          InstallDownloadOk(t, a, FALSE)
    \/ \E t \in Tasks : InstallExtract(t, FALSE, 2)
    \/ \E t \in Tasks, lockThrows \in BOOLEAN : InstallFinish(t, lockThrows)
    \/ \E t \in Tasks : Return(t)
    \/ RemotePublish

SpecInstalls == InitStore /\ [][NextInstalls]_vars

\* ---- SpecBrowse
\* The readers of the catalog, one call at a time: the providers, the search
\* action with and without search terms, and the refreshes between them, over
\* catalogs of one and of two pages.
NextBrowse ==
    \/ \E searchTerms \in {"", "browser"} : SearchSkillsCall("t1", searchTerms)
    \/ SearchSkillsPopular("t1")
    \/ SearchSkillsResults("t1")
    \/ skillsOverviewProviderGet("t1")
    \/ catalogAwarenessProviderGet("t1", TRUE)
    \/ \E force \in BOOLEAN : GetCatalogCall("t1", "direct", force, UNDEF)
    \/ \E hasNext \in BOOLEAN : GetCatalogPageOk("t1", hasNext, TRUE)
    \/ GetCatalogPageFail("t1")
    \/ \E noResults \in BOOLEAN : SearchOk("t1", noResults)
    \/ SearchFail("t1")
    \/ Return("t1")
    \/ RemotePublish

SpecBrowse == Init /\ [][NextBrowse]_vars

\* ---- SpecOverlap
OverlapTicks == 2

\* Forced refreshes of the catalog started at different instants and
\* overlapping: each page of each is answered in any order, or fails, while
\* the remote publishes and time passes.
NextOverlap ==
    \/ \E t \in Tasks : GetCatalogCall(t, "direct", TRUE, UNDEF)
    \/ \E t \in Tasks, hasNext \in BOOLEAN : GetCatalogPageOk(t, hasNext, TRUE)
    \/ \E t \in Tasks : GetCatalogPageFail(t)
    \/ \E t \in Tasks : Return(t)
    \/ RemotePublish
    \/ Elapse(OverlapTicks, {now + 1})

SpecOverlap == Init /\ [][NextOverlap]_vars

\* ---- SpecStop
\* stop() while calls are in flight: a forced catalog refresh, a search and a
\* detail lookup in one slot and an install in the other, each suspended at
\* its awaits and answered before or after the stop; no call is made after it.
NextStop ==
    \/ ~stopped /\ GetCatalogCall("t1", "direct", TRUE, UNDEF)
    \/ \E hasNext \in BOOLEAN : GetCatalogPageOk("t1", hasNext, TRUE)
    \/ ~stopped /\ SearchCall("t1", "direct", "browser", 10, TRUE, UNDEF)
    \/ SearchOk("t1", FALSE)
    \/ ~stopped /\ GetSkillDetailsCall("t1", "direct", <<"a">>, TRUE, UNDEF)
    \/ GetSkillDetailsOk("t1")
    \/ ~stopped /\ InstallCall("t2", <<"b">>, LATEST)
    \/ InstallDetailsOk("t2")
    \/ InstallDownloadOk("t2", PlainArchive, FALSE)
    \/ InstallExtract("t2", FALSE, 2)
    \/ InstallFinish("t2", FALSE)
    \/ \E t \in Tasks : Return(t)
    \/ Stop
    \/ RemotePublish

SpecStop == Init /\ [][NextStop]_vars

\* ================================================================= claims
CacheOps == {"getCatalog", "search", "getSkillDetails"}

DefaultTtl(op) ==
    CASE op = "getCatalog" -> CACHE_TTL_CATALOG
      [] op = "search" -> CACHE_TTL_SEARCH
      [] op = "getSkillDetails" -> CACHE_TTL_SKILL_DETAILS

\* A read under the default policy that found an entry for its key.
DefaultPolicyRead(c) ==
    /\ c.op \in CacheOps
    /\ ~c.force
    /\ c.notOlderThan = UNDEF
    /\ c.seen # NULL

\* C1: a read under the default policy of an entry stamped cachedAt = t0, made
\* at time t, returns the cached data without a network request when
\* t - t0 < T (one hour for the catalog, five minutes for a search, thirty
\* minutes for details), and makes a network request when t - t0 >= T.
C1_TtlCorrectness ==
    \A t \in Tasks :
       LET c == tasks[t]
       IN  DefaultPolicyRead(c) =>
              IF c.calledAt - c.seen.cachedAt < DefaultTtl(c.op)
              THEN /\ c.pc = "done"
                   /\ c.requests = 0
                   /\ c.ret = Value(c.seen.data)
              ELSE c.requests >= 1

\* A search entry read one millisecond before its TTL ran out was served
\* from the cache.
C1_Witness ==
    \E t \in Tasks :
       /\ DefaultPolicyRead(tasks[t])
       /\ tasks[t].op = "search"
       /\ tasks[t].calledAt - tasks[t].seen.cachedAt = CACHE_TTL_SEARCH - 1
       /\ tasks[t].requests = 0
       /\ tasks[t].pc = "done"

\* C2: a getCatalog, search or getSkillDetails call with forceRefresh = true
\* (whose slug passes validation) never returns at the cache check: it makes a
\* network request whatever the age of the entry and whatever notOlderThan is.
C2_ForceRefreshBypassesCache ==
    \A t \in Tasks :
       LET c == tasks[t]
       IN  (/\ c.op \in CacheOps
            /\ c.force
            /\ c.op = "getSkillDetails" => sanitizeSlug(c.key).ok)
           => c.requests >= 1 /\ c.via # "hit"

\* A forced catalog read is fetching although the cache holds a snapshot that
\* a refresh wrote at this very instant, and notOlderThan is Infinity.
C2_Witness ==
    \E t \in Tasks :
       /\ tasks[t].op = "getCatalog" /\ tasks[t].force
       /\ tasks[t].notOlderThan = Infinity
       /\ tasks[t].requests >= 1
       /\ catalogCache # NULL
       /\ catalogCache.data # OldSnapshot
       /\ catalogCache.cachedAt = tasks[t].calledAt

\* C3: getCatalog with notOlderThan = Infinity and no forceRefresh makes no
\* network request in any state of the cache, the empty cache included.
C3_CacheOnlyReadNeverFetches ==
    \A t \in Tasks :
       (/\ tasks[t].op = "getCatalog"
        /\ ~tasks[t].force
        /\ tasks[t].notOlderThan = Infinity)
       => tasks[t].requests = 0

\* C4: no call made by a provider's get makes a network request.
C4_ProvidersNeverFetch ==
    \A t \in Tasks : tasks[t].caller \in Providers => tasks[t].requests = 0

\* The step of task t in which a getCatalog refresh ends without a page
\* having been appended: the request failed.
RefreshFails(t) ==
    /\ tasks[t].op = "getCatalog" /\ tasks[t].pc = "page"
    /\ tasks'[t].pc = "done"
    /\ tasks'[t].entries = tasks[t].entries

\* C5: when a refresh fails at any page, getCatalog returns the snapshot the
\* cache holds (the empty list when it holds none), returns it as a value and
\* not as an error, and leaves the cache and its cachedAt as they were.
C5_StaleOnError ==
    [][\A t \in Tasks :
          RefreshFails(t) =>
             /\ tasks'[t].ret =
                   Value(IF catalogCache = NULL THEN <<>> ELSE catalogCache.data)
             /\ catalogCache' = catalogCache]_vars

\* A forced refresh failed at its second page and returned the snapshot that
\* is still cached.
C5_Witness ==
    \E t \in Tasks :
       /\ tasks[t].op = "getCatalog" /\ tasks[t].force
       /\ tasks[t].pc = "done" /\ tasks[t].via = "fallback"
       /\ Len(tasks[t].entries) >= 1
       /\ catalogCache # NULL
       /\ tasks[t].ret = Value(catalogCache.data)

ListingOrNone(entry) == entry = NULL \/ IsCompleteListing(entry.data)

\* C6: the catalog cache and the persisted snapshot hold nothing, or a listing
\* all of whose pages were fetched: the pages that a failed refresh had
\* fetched enter neither.
C6_RefreshAllOrNothing ==
    /\ ListingOrNone(catalogCache)
    /\ ListingOrNone(loadCatalogFromDisk(diskCatalog))

\* A refresh failed after its first page succeeded, on a cache that held no
\* snapshot, and the cache and the snapshot file still hold none.
C6_Witness ==
    \E t \in Tasks :
       /\ tasks[t].op = "getCatalog"
       /\ tasks[t].pc = "done" /\ tasks[t].via = "fallback"
       /\ Len(tasks[t].entries) >= 1
       /\ catalogCache = NULL /\ diskCatalog = NULL

\* What a reader was given: getCatalog answered from the cache, getCatalogStats.
IsReader(c) ==
    /\ c.pc = "done"
    /\ \/ c.op = "getCatalog" /\ c.requests = 0
       \/ c.op = "getCatalogStats"

\* C7: a reader, also between the pages of a refresh in progress, is given a
\* whole snapshot: the catalog it reads is a listing all of whose pages were
\* fetched (or none), never some pages of the refresh in progress.
C7_ReadersSeeWholeSnapshots ==
    \A t \in Tasks :
       LET c == tasks[t]
       IN  IsReader(c) =>
              /\ ListingOrNone(c.seen)
              /\ c.op = "getCatalog" => c.ret = Value(c.seen.data)
              /\ c.op = "getCatalogStats" =>
                    c.ret.val.total = IF c.seen = NULL THEN 0
                                      ELSE Len(c.seen.data)

\* A reader was answered from the cache while a refresh that began on the
\* empty cache is between its pages.
C7_Witness ==
    \E t, u \in Tasks :
       /\ IsReader(tasks[t]) /\ tasks[t].seen # NULL
       /\ tasks[u].op = "getCatalog" /\ tasks[u].pc = "page"
       /\ ~tasks[u].force /\ tasks[u].seen = NULL
       /\ Len(tasks[u].entries) >= 1

SlugOps == {"getSkillDetails", "install", "loadSkill"} \cup LookupOps

\* ^[A-Za-z0-9_-]{1,100}$
MatchesSlugPattern(s) ==
    /\ Len(s) >= 1 /\ Len(s) <= MAX_SLUG_LENGTH
    /\ \A i \in 1..Len(s) : s[i] \in SlugChars

\* C8: a slug-taking operation given a string that is empty, longer than 100
\* characters or has a character outside [A-Za-z0-9_-] ends at once with no
\* network request and no filesystem access; given a string matching
\* ^[A-Za-z0-9_-]{1,100}$ it works on that very string.
C8_InvalidSlugNoIO ==
    \A t \in Tasks :
       LET c == tasks[t]
       IN  c.op \in SlugOps =>
              IF MatchesSlugPattern(c.key)
              THEN c.safeSlug = c.key
              ELSE c.pc = "done" /\ c.requests = 0 /\ ~c.usedFs
                   /\ c.safeSlug = <<>>

\* loadSkill was called with a slug of 101 characters and has ended.
C8_Witness ==
    \E t \in Tasks :
       /\ tasks[t].op = "loadSkill"
       /\ tasks[t].key = Long(MAX_SLUG_LENGTH + 1)
       /\ tasks[t].pc = "done"

\* C9 as claimed: every slug-taking operation given an invalid slug ends with
\* the error thrown to its caller.
C9_InvalidSlugAlwaysThrows ==
    \A t \in Tasks :
       LET c == tasks[t]
       IN  (c.op \in SlugOps /\ ~MatchesSlugPattern(c.key) /\ c.pc = "done")
           => c.ret.kind = "throw"

\* C9 as amended: given an invalid slug, getSkillDetails and loadSkill end at
\* once with the error thrown to the caller; install ends at once returning
\* false, getLoadedSkill undefined, getSkillInstructions null and isInstalled
\* false.
C9_InvalidSlugOutcome ==
    \A t \in Tasks :
       LET c == tasks[t]
       IN  (c.op \in SlugOps /\ ~MatchesSlugPattern(c.key)) =>
              /\ c.pc = "done"
              /\ c.ret = CASE c.op \in {"getSkillDetails", "loadSkill"} ->
                                 Throw("InvalidSlug")
                           [] c.op = "install" -> Value([bool |-> FALSE])
                           [] c.op = "getLoadedSkill" -> Value(UNDEF)
                           [] c.op = "getSkillInstructions" -> Value(NULL)
                           [] c.op = "isInstalled" -> Value([bool |-> FALSE])

\* install was called with a slug holding a "/" and returned false.
C9_Witness ==
    \E t \in Tasks :
       /\ tasks[t].op = "install"
       /\ tasks[t].key = <<"a", "/">>
       /\ tasks[t].ret = Value([bool |-> FALSE])

\* The segments of an entry name that are neither empty, '.', nor '..'.
KeptSegments(name) ==
    SelectSeq(Split(name), LAMBDA p : p # <<>> /\ p # Dot /\ p # DotDot)

\* An entry (not a directory entry) with a '..' segment or an empty segment.
IsUnsafeEntry(name) ==
    /\ ~EndsWithSlash(name)
    /\ \E j \in 1..Len(Split(name)) :
          Split(name)[j] = DotDot \/ Split(name)[j] = <<>>

InstallEnded(c) == c.op = "install" /\ c.pc = "done" /\ c.archive # NULL

\* C10 as claimed: an install whose archive has an entry with a '..' segment
\* or an empty segment returns false.
C10_UnsafeArchiveRejected ==
    \A t \in Tasks :
       LET c == tasks[t]
       IN  (/\ InstallEnded(c)
            /\ \E i \in 1..Len(c.archive.names) :
                  IsUnsafeEntry(c.archive.names[i]))
           => c.ret = Value([bool |-> FALSE])

\* C10 as amended: an archive with such an entry is not rejected.  When
\* install returns true, every entry of the archive that is no directory entry
\* was written inside the skill's directory at its path without the '..', '.'
\* and empty segments (an entry of which nothing remains is skipped), and the
\* lock record holds the installed version.
C10_UnsafeEntriesSanitized ==
    \A t \in Tasks :
       LET c == tasks[t]
       IN  (InstallEnded(c) /\ c.ret = Value([bool |-> TRUE])) =>
              /\ \A i \in 1..Len(c.archive.names) :
                    (/\ ~EndsWithSlash(c.archive.names[i])
                     /\ KeptSegments(c.archive.names[i]) # <<>>)
                    => (<<c.safeSlug>> \o KeptSegments(c.archive.names[i]))
                          \in files
              /\ c.safeSlug \in DOMAIN lockfile.records
              /\ lockfile.records[c.safeSlug].version = c.resolvedVersion

\* An install of an archive holding ../../evil returned true, and the entry
\* is on disk as evil in the skill's directory.
C10_Witness ==
    \E t \in Tasks :
       /\ InstallEnded(tasks[t])
       /\ tasks[t].ret = Value([bool |-> TRUE])
       /\ \E i \in 1..Len(tasks[t].archive.names) :
             tasks[t].archive.names[i] = EvilName
       /\ <<tasks[t].safeSlug, <<"evil">> >> \in files

\* C11: whatever the segments of an archive's entry names ('..', '.', empty
\* segments, a leading '/'), every file an extraction writes lies inside the
\* target directory of the slug being installed.
C11_ExtractionStaysInside ==
    [][\A f \in files' \ files :
          \E t \in Tasks :
             /\ tasks[t].op = "install" /\ tasks[t].pc = "extract"
             /\ Len(f) >= 2
             /\ f[1] = tasks[t].safeSlug
             /\ MatchesSlugPattern(f[1])
             /\ \A i \in 2..Len(f) : f[i] # DotDot /\ f[i] # Dot /\ f[i] # <<>>
      ]_vars

\* The entry /etc/./x was written as etc/x in the directory of slug a.
C11_Witness ==
    <<<<"a">>, <<"etc">>, <<"x">> >> \in files

\* C12: a downloaded package larger than 10 * 1024 * 1024 bytes makes install
\* return false in the step that receives it, before any filesystem access,
\* with the files, the lock record and the loaded skills unchanged; a package
\* of 10 * 1024 * 1024 bytes or less goes on to extraction unless making the
\* directory fails.
C12_OversizedRejected ==
    [][\A t \in Tasks :
          (/\ tasks[t].op = "install" /\ tasks[t].pc = "download"
           /\ tasks'[t].archive # NULL)
          => IF tasks'[t].archive.size > 10 * 1024 * 1024
             THEN /\ tasks'[t].pc = "done"
                  /\ tasks'[t].ret = Value([bool |-> FALSE])
                  /\ ~tasks'[t].usedFs
                  /\ UNCHANGED <<files, lockfile, loadedSkills>>
             ELSE tasks'[t].pc = "extract" \/ tasks'[t].usedFs
      ]_vars

\* An install that received a package of one byte more than the limit has
\* returned false.
C12_Witness ==
    \E t \in Tasks :
       /\ tasks[t].op = "install" /\ tasks[t].pc = "done"
       /\ tasks[t].archive # NULL
       /\ tasks[t].archive.size = MAX_PACKAGE_BYTES + 1
       /\ tasks[t].ret = Value([bool |-> FALSE])

\* C13: install ends with true or false, never with an exception, and with
\* true only if the package was downloaded, was within the size limit, its
\* entries were written and the lock record holds the installed version.
C13_InstallNeverThrows ==
    \A t \in Tasks :
       LET c == tasks[t]
       IN  (c.op = "install" /\ c.pc = "done") =>
              /\ c.ret \in {Value([bool |-> TRUE]), Value([bool |-> FALSE])}
              /\ c.ret = Value([bool |-> TRUE]) =>
                    /\ c.requests >= 1
                    /\ c.archive # NULL
                    /\ c.archive.size <= 10 * 1024 * 1024
                    /\ \A i \in 1..Len(c.archive.names) :
                          (/\ ~EndsWithSlash(c.archive.names[i])
                           /\ KeptSegments(c.archive.names[i]) # <<>>)
                          => (<<c.safeSlug>>
                                \o KeptSegments(c.archive.names[i])) \in files
                    /\ c.safeSlug \in DOMAIN lockfile.records
                    /\ lockfile.records[c.safeSlug].version = c.resolvedVersion

\* An install whose package arrived within the size limit failed later (making
\* the directory, extraction or the lock record) and returned false.
C13_Witness ==
    \E t \in Tasks :
       /\ tasks[t].op = "install" /\ tasks[t].pc = "done"
       /\ tasks[t].archive # NULL
       /\ tasks[t].archive.size <= MAX_PACKAGE_BYTES
       /\ tasks[t].usedFs
       /\ tasks[t].ret = Value([bool |-> FALSE])

\* A guidance request that got past the search and has returned.
Resolved(c) ==
    /\ c.op = "getSkillGuidance" /\ c.pc = "done"
    /\ c.frame # NULL /\ c.frame.decided

\* The local match scores 8 or more.
StrongLocal(f) == f.localMatch # NULL /\ f.localMatch.score >= 8

\* There is no remote candidate, or its score x 100 is not above the local
\* match's score.
Unbeaten(f) ==
    \/ f.bestRemote = NULL
    \/ f.bestRemote.score.num * 100
          <= f.localMatch.score * f.bestRemote.score.den

\* The remote candidate's native score is below 0.25.
UnderFloor(f) ==
    f.bestRemote.score.num * 100 < 25 * f.bestRemote.score.den

\* C14 as claimed: the resolver decides for the local match if and only if
\* the local match scores 8 or more and there is no remote candidate or the
\* remote candidate's score x 100 is not higher than the local score.
C14_LocalIffStrongAndUnbeaten ==
    \A t \in Tasks :
       LET c == tasks[t]
       IN  Resolved(c) =>
              (c.via = "local" <=> (StrongLocal(c.frame) /\ Unbeaten(c.frame)))

\* C15 as claimed: when the slug and the name of the local match are both in
\* the search terms, its score is at least 18 and, the remote candidate not
\* scoring higher, the request is answered from it with source 'local' and
\* without an install.
C15_NameAndSlugResolveLocally ==
    \A t \in Tasks :
       LET c == tasks[t]
           f == c.frame
       IN  (/\ Resolved(c)
            /\ f.localMatch # NULL
            /\ Includes(f.searchTerms, Text(f.localMatch.skill.slug))
            /\ Includes(f.searchTerms, f.localMatch.skill.name))
           => /\ f.localMatch.score >= 18
              /\ Unbeaten(f) =>
                    /\ c.via = "local"
                    /\ c.ret.val.data.source = "local"
                    /\ c.ret.val.data.skill.slug = f.localMatch.skill.slug
                    /\ f.installCalls = 0

\* No skill was installed, the top result scored 0.25 or more and the install
\* of it returned true.
RemoteInstalledFromNothing(c) ==
    /\ Resolved(c)
    /\ c.frame.installedSkills = {}
    /\ c.frame.bestRemote # NULL /\ ~UnderFloor(c.frame)
    /\ c.frame.installed = TRUE

C17_NoMatchNeverFabricates ==
    \A t \in Tasks :
       LET c == tasks[t]
       IN  (/\ c.frame # NULL /\ c.frame.decided
            /\ ~StrongLocal(c.frame)
            /\ c.frame.bestRemote = NULL \/ UnderFloor(c.frame))
           => /\ c.op = "getSkillGuidance" /\ c.pc = "done"
              /\ c.via = "noMatch"
              /\ c.ret.val.data.found = FALSE
              /\ "skill" \notin DOMAIN c.ret.val.data
              /\ "values" \notin DOMAIN c.ret.val
              /\ c.frame.installCalls = 0

\* 'No match' was returned with a weak local match and a remote candidate of
\* native score 0.24.
C17_Witness ==
    \E t \in Tasks :
       /\ Resolved(tasks[t])
       /\ tasks[t].frame.localMatch # NULL
       /\ tasks[t].frame.bestRemote # NULL
       /\ tasks[t].frame.bestRemote.score = Hundredths(24)
       /\ tasks[t].via = "noMatch"

\* The decision went to the remote candidate.
RemoteSelected(f) ==
    /\ f.bestRemote # NULL
    /\ ~(UnderFloor(f) /\ ~StrongLocal(f))
    /\ ~(StrongLocal(f) /\ Unbeaten(f))

\* C18: when the remote candidate is selected, install is called (once) only
\* if the candidate is not loaded already; when that install returns false
\* the request is answered from the local match if there is one, with source
\* 'local', and otherwise with found = true, installed = false.
C18_InstallFailureFallsBack ==
    \A t \in Tasks :
       LET c == tasks[t]
           f == c.frame
       IN  (Resolved(c) /\ RemoteSelected(f)) =>
              IF f.alreadyInstalled THEN f.installCalls = 0
              ELSE /\ f.installCalls = 1
                   /\ c.key = f.bestRemote.slug
                   /\ f.installed = FALSE =>
                         IF f.localMatch # NULL
                         THEN /\ "source" \in DOMAIN c.ret.val.data
                              /\ c.ret.val.data.source = "local"
                              /\ c.ret.val.data.skill.slug
                                    = f.localMatch.skill.slug
                         ELSE c.ret.val.data
                                 = [found |-> TRUE, installed |-> FALSE]

\* The install of the selected remote candidate failed and the request was
\* answered from the local match.
C18_Witness ==
    \E t \in Tasks :
       /\ Resolved(tasks[t]) /\ RemoteSelected(tasks[t].frame)
       /\ tasks[t].frame.installed = FALSE
       /\ tasks[t].frame.localMatch # NULL
       /\ tasks[t].ret.val.data.source = "local"

\* C19: whatever the search and the install give, they return a value to the
\* handler, and the handler returns a successful result with a text.
C19_HandlerAlwaysAnswers ==
    \A t \in Tasks :
       LET c == tasks[t]
       IN  /\ (c.caller = "guidance" /\ c.pc = "done") => c.ret.kind = "value"
           /\ (c.op = "getSkillGuidance" /\ c.pc = "done" /\ c.frame # NULL)
              => /\ c.ret.kind = "value"
                 /\ c.ret.val.success
                 /\ "text" \in DOMAIN c.ret.val
                 /\ Len(c.ret.val.text) > 0

\* A request whose search failed with nothing cached was answered 'no match'.
C19_Witness ==
    \E t \in Tasks :
       /\ Resolved(tasks[t])
       /\ tasks[t].via = "noMatch"
       /\ tasks[t].requests = 1
       /\ <<tasks[t].frame.searchTerms, ":", 5>> \notin DOMAIN searchCache

\* A step of a guidance request before its install: the call, the search and
\* the decision.
BeforeInstallStep(t) ==
    /\ tasks'[t] # tasks[t]
    /\ \/ tasks[t].pc = "idle" /\ tasks'[t].caller \in {"guidance", "host"}
       \/ tasks[t].op = "search" /\ tasks[t].caller = "guidance"

\* C20 as claimed: the steps of a resolution before its install change no
\* cache, no loaded skill, no lock record and no file.
C20_OnlyInstallMutates ==
    [][\A t \in Tasks :
          BeforeInstallStep(t) => UNCHANGED <<cacheVars, storeVars>>]_vars

\* C20 as amended: the steps of a resolution before its install leave the
\* catalog and detail caches, the snapshot, the loaded skills, the lock record
\* and the files unchanged; the only state they change is the search cache,
\* where an answered search stores its results under its terms and limit 5.
C20_OnlySearchCacheBeforeInstall ==
    [][\A t \in Tasks :
          BeforeInstallStep(t) =>
             /\ UNCHANGED <<catalogCache, detailsCache, diskCatalog, storeVars>>
             /\ searchCache' # searchCache =>
                   LET k == <<tasks[t].frame.searchTerms, ":", 5>>
                   IN  /\ DOMAIN searchCache' = DOMAIN searchCache \cup {k}
                       /\ \A o \in DOMAIN searchCache :
                             o # k => searchCache'[o] = searchCache[o]
                       /\ searchCache'[k].data = tasks'[t].ret.val
      ]_vars

\* A request ended 'no match' after its search had stored an empty result.
C20_Witness ==
    \E t \in Tasks :
       /\ Resolved(tasks[t])
       /\ tasks[t].via = "noMatch"
       /\ tasks[t].requests = 1
       /\ <<tasks[t].frame.searchTerms, ":", 5>> \in DOMAIN searchCache

\* A call of the detail lookup whose request was answered in this step.
DetailsAnswered(t) ==
    /\ tasks[t].op = "getSkillDetails" /\ tasks[t].pc = "details"
    /\ tasks'[t].pc = "done"

\* C28 as claimed: a 404 of the detail lookup yields 'not found' (null), also
\* over a cached entry, and any other failure reaches the caller as an error.
C28_FailureIsRaised ==
    [][\A t \in Tasks :
          DetailsAnswered(t) =>
             /\ tasks'[t].via = "notFound" => tasks'[t].ret = Value(NULL)
             /\ tasks'[t].via = "fallback" => tasks'[t].ret.kind = "throw"
      ]_vars

\* C28 as amended: a 404 of the detail lookup yields 'not found' (null), also
\* when an entry of the slug is cached, and leaves the cache as it is; any
\* other failure is caught inside the lookup, which returns the data of the
\* cached entry of the slug when there is one and null when there is none.
C28_NotFoundIsNullFailureIsStale ==
    [][\A t \in Tasks :
          DetailsAnswered(t) =>
             LET cached == MapGet(detailsCache, tasks[t].safeSlug)
             IN  /\ tasks'[t].via = "notFound" =>
                       /\ tasks'[t].ret = Value(NULL)
                       /\ UNCHANGED detailsCache
                 /\ tasks'[t].via = "fallback" =>
                       /\ tasks'[t].ret =
                             Value(IF cached = NULL THEN NULL ELSE cached.data)
                       /\ UNCHANGED detailsCache
      ]_vars

\* A lookup was answered 404 while an entry of its slug was cached.
C28_Witness ==
    \E t \in Tasks :
       /\ tasks[t].op = "getSkillDetails" /\ tasks[t].pc = "done"
       /\ tasks[t].via = "notFound"
       /\ tasks[t].ret = Value(NULL)
       /\ tasks[t].safeSlug \in DOMAIN detailsCache

\* A call of the search whose request failed in this step.
SearchFailed(t) ==
    /\ tasks[t].op = "search" /\ tasks[t].pc = "search"
    /\ tasks'[t].pc = "done"
    /\ tasks'[t].via \in {"fallback", "throw"}

\* C29 as claimed: a failed search raises an error to its caller and is not
\* turned into an empty result by the search operation.
C29_SearchFailureIsRaised ==
    [][\A t \in Tasks :
          SearchFailed(t) => tasks'[t].ret.kind = "throw"]_vars

\* C29 as amended: a failed search raises nothing: the search operation
\* returns the data of the cached entry of its key when there is one, however
\* old, and the empty list when there is none, and changes no cache.
C29_SearchFailureIsStaleOrEmpty ==
    [][\A t \in Tasks :
          SearchFailed(t) =>
             LET cached == MapGet(searchCache,
                                  cacheKey(tasks[t].key[1], tasks[t].key[2]))
             IN  /\ tasks'[t].ret =
                       Value(IF cached = NULL THEN <<>> ELSE cached.data)
                 /\ UNCHANGED cacheVars
      ]_vars

\* A forced search failed over a cached entry and returned its results.
C29_Witness ==
    \E t \in Tasks :
       /\ tasks[t].op = "search" /\ tasks[t].pc = "done"
       /\ tasks[t].via = "fallback"
       /\ tasks[t].ret.kind = "value"
       /\ tasks[t].ret.val # <<>>
       /\ cacheKey(tasks[t].key[1], tasks[t].key[2]) \in DOMAIN searchCache

\* The entries of map m other than that of key k are those of map n.
SameButFor(m, n, k) ==
    /\ DOMAIN n \subseteq DOMAIN m \cup {k}
    /\ \A o \in DOMAIN m : o # k => o \in DOMAIN n /\ n[o] = m[o]

\* C30: the three caches are independent.  A step of a catalog call changes
\* neither the search cache nor the detail cache; a step of a search changes
\* at most the search entry of its key and nothing of the other two caches; a
\* step of a detail lookup changes at most the detail entry of its slug and
\* nothing of the other two caches.
C30_CachesIndependent ==
    [][\A t \in Tasks :
          tasks'[t] # tasks[t] =>
             LET c == IF tasks[t].pc = "idle" THEN tasks'[t] ELSE tasks[t]
             IN  /\ c.op \in {"getCatalog", "getCatalogStats"} =>
                       UNCHANGED <<searchCache, detailsCache>>
                 /\ c.op = "search" =>
                       /\ UNCHANGED <<catalogCache, diskCatalog, detailsCache>>
                       /\ SameButFor(searchCache, searchCache',
                                     cacheKey(c.key[1], c.key[2]))
                 /\ c.op = "getSkillDetails" =>
                       /\ UNCHANGED <<catalogCache, diskCatalog, searchCache>>
                       /\ SameButFor(detailsCache, detailsCache', c.safeSlug)
      ]_vars

\* A search stored its results while an entry of another key, the entry of a
\* slug and the catalog were cached.
C30_Witness ==
    \E t \in Tasks :
       /\ tasks[t].op = "search" /\ tasks[t].pc = "done"
       /\ tasks[t].via = "fetched"
       /\ \E k \in DOMAIN searchCache :
             k # cacheKey(tasks[t].key[1], tasks[t].key[2])
       /\ detailsCache # EmptyMap
       /\ catalogCache # NULL

\* A call of loadSkill that returned a skill.
LoadedASkill(c) ==
    /\ c.op = "loadSkill" /\ c.pc = "done" /\ c.via = "read"
    /\ c.ret.val # NULL

C27_BadLockFileIsEmptyRecord ==
    [][\A t \in Tasks :
          lockfile.content # "records" =>
             /\ (tasks[t].pc = "idle" /\ LoadedASkill(tasks'[t])) =>
                   tasks'[t].ret.val.version = "local"
             /\ (tasks[t].op = "install" /\ tasks[t].pc = "lock"
                 /\ tasks'[t].pc = "done") =>
                   /\ tasks'[t].ret = Value([bool |-> TRUE])
                   /\ lockfile'.content = "records"
                   /\ DOMAIN lockfile'.records = {tasks[t].safeSlug}
      ]_vars

SyncInFlight(c) == c.op = "getCatalog" /\ c.caller = "syncCatalog"

C22_CleanupCancels ==
    /\ [][/\ timers.cleaned => timers'.invoked = timers.invoked
          /\ (~timers.cleaned /\ timers'.cleaned) =>
                /\ timers'.timeout \in {"fired", "cleared"}
                /\ timers.timeout = "pending" => timers'.timeout = "cleared"
                /\ timers'.interval = "cleared"
                /\ UNCHANGED <<tasks, cacheVars, storeVars>>
         ]_vars
    /\ \A t \in Tasks :
          (timers.cleaned /\ SyncInFlight(tasks[t]))
             ~> (tasks[t].op = "syncCatalog" /\ tasks[t].pc = "done")

\* The cleanup was called while the sync of the handler waits for a page.
C22_Witness ==
    \E t \in Tasks :
       /\ timers.cleaned
       /\ timers.interval = "cleared"
       /\ SyncInFlight(tasks[t]) /\ tasks[t].pc = "page"
       /\ tasks[t].frame.caller = "handler"

\* C23: while the timers are armed and the cleanup was not called, the
\* interval stays armed, the timeout has run its handler once iff the 5 s
\* have elapsed, the interval has run it once for every period that has
\* elapsed, and the handler was invoked by them only; whatever an invocation
\* found, the timeout runs when it is due and the interval runs again.
C23_PeriodicInvocation ==
    /\ [](/\ timers.interval # "none" /\ ~timers.cleaned =>
             LET elapsed == now - timers.startedAt
             IN  /\ timers.interval = "active"
                 /\ timers.timeout \in {"pending", "fired"}
                 /\ timers.timeout = "fired" => elapsed >= INITIAL_DELAY_MS
                 /\ elapsed > INITIAL_DELAY_MS => timers.timeout = "fired"
                 /\ timers.fired * SYNC_INTERVAL_MS <= elapsed
                 /\ timers.fired < MaxPeriods =>
                       elapsed <= (timers.fired + 1) * SYNC_INTERVAL_MS
                 /\ timers.invoked = timers.fired
                       + (IF timers.timeout = "fired" THEN 1 ELSE 0))
    /\ (timers.timeout = "pending")
          ~> (timers.timeout = "fired" \/ timers.cleaned)
    /\ \A k \in 0..(MaxPeriods - 1) :
          (timers.interval = "active" /\ timers.fired = k)
             ~> (timers.fired > k \/ timers.cleaned)

\* The handler found no service when the timeout ran it, and the interval has
\* run it twice since.
C23_Witness ==
    \E t \in Tasks :
       /\ ~timers.cleaned
       /\ timers.fired = 2 /\ timers.invoked = 3
       /\ tasks[t].op = "syncCatalogTask" /\ tasks[t].via = "noService"
       /\ tasks[t].calledAt = timers.startedAt + INITIAL_DELAY_MS

\* C36 as claimed: a remote candidate whose native score is below 0.25 is
\* never selected: install is not called for it and the request is answered
\* with 'no match' or from the local match.
C36_BelowFloorNeverSelected ==
    \A t \in Tasks :
       LET c == tasks[t]
           f == c.frame
       IN  (/\ c.op = "getSkillGuidance" /\ f # NULL /\ f.decided
            /\ f.bestRemote # NULL /\ UnderFloor(f))
           => /\ f.installCalls = 0
              /\ c.pc = "done" => c.via \in {"noMatch", "local"}

\* install has returned true.
InstallReturnedTrue(c) ==
    c.op = "install" /\ c.pc = "done" /\ c.ret = Value([bool |-> TRUE])

FailingInstallStep(t) ==
    /\ tasks'[t] # tasks[t]
    /\ tasks'[t].op = "install"
    /\ tasks'[t].ret # Value([bool |-> TRUE])

\* C35: no step of an install changes the lock record or the loaded-skill
\* store except the step on which it returns true, so an install that returns
\* false leaves both as they were when it was called.
C35_FailedInstallChangesNothing ==
    [][\A t \in Tasks :
          FailingInstallStep(t) => UNCHANGED <<lockfile, loadedSkills>>]_vars

\* A reinstall of a loaded skill failed after its archive was unpacked, and
\* the skill and its recorded version are still there.
C35_Witness ==
    \E t \in Tasks :
       /\ tasks[t].op = "install" /\ tasks[t].pc = "done"
       /\ tasks[t].ret = Value([bool |-> FALSE])
       /\ tasks[t].archive # NULL /\ ~TooLarge(tasks[t].archive.size)
       /\ tasks[t].usedFs
       /\ tasks[t].safeSlug \in DOMAIN loadedSkills
       /\ lockfile.content = "records"
       /\ tasks[t].safeSlug \in DOMAIN lockfile.records

\* Task t completes a full catalog fetch on this step.
CompletesFetch(t) ==
    /\ tasks[t].op = "getCatalog" /\ tasks[t].pc = "page"
    /\ tasks'[t].pc = "done" /\ tasks'[t].via = "fetched"

\* The entries a task collected are the pages 1..n in the order they were
\* fetched, one request each, the last one the only page without nextCursor.
OwnFullFetch(c) ==
    /\ IsCompleteListing(c.entries)
    /\ c.requests = Len(c.entries)

MissesCatalog(t) ==
    /\ tasks[t].pc = "idle" /\ tasks'[t].op = "getCatalog"
    /\ ~IsUsable(catalogCache, tasks'[t].force,
                 EffectiveTtl(tasks'[t].notOlderThan, CACHE_TTL_CATALOG))

\* C33: a getCatalog call that misses the cache requests the first page
\* itself, also while another call's fetch is in flight, and every fetch that
\* completes has fetched every page itself and assigns the cache with its
\* own entries.
C33_RefreshesNotDeduplicated ==
    [][\A t \in Tasks :
          /\ MissesCatalog(t) =>
                tasks'[t].pc = "page" /\ tasks'[t].requests = 1
          /\ CompletesFetch(t) =>
                /\ OwnFullFetch(tasks'[t])
                /\ catalogCache' = [data |-> tasks'[t].entries,
                                    cachedAt |-> now]]_vars

\* Two calls found the cache empty, so the second was made before the first
\* completed; both fetched the whole catalog and the cache holds the entries
\* of one of them.
C33_Witness ==
    /\ \A t \in Tasks :
          /\ tasks[t].op = "getCatalog" /\ tasks[t].via = "fetched"
          /\ ~tasks[t].force /\ tasks[t].seen = NULL
          /\ tasks[t].requests = MaxPages
    /\ \E t \in Tasks : catalogCache.data = tasks[t].entries

\* C38 as claimed: once stop() has run, the loaded skills and the three
\* caches are empty and stay so, and the snapshot file is written no more.
C38_StoppedStaysEmpty ==
    [][stopped' =>
          /\ loadedSkills' = EmptyMap
          /\ catalogCache' = NULL
          /\ searchCache' = EmptyMap
          /\ detailsCache' = EmptyMap
          /\ stopped => UNCHANGED diskCatalog]_vars

\* The cached snapshot is the one task u fetched, and u's call was made
\* after task t's.
CachedBeganAfter(u, t) ==
    /\ u # t
    /\ tasks[u].op = "getCatalog" /\ tasks[u].via = "fetched"
    /\ catalogCache # NULL /\ catalogCache.data = tasks[u].entries
    /\ tasks[u].calledAt > tasks[t].calledAt

\* C39 as claimed: a fetch that completes does not replace a cached snapshot
\* whose fetch began after its own, and cachedAt never decreases.
C39_LatestStartedWins ==
    [][/\ \A t, u \in Tasks :
             (CompletesFetch(t) /\ CachedBeganAfter(u, t))
                => catalogCache' = catalogCache
       /\ (catalogCache # NULL /\ catalogCache' # NULL)
             => catalogCache'.cachedAt >= catalogCache.cachedAt]_vars

\* Task t's install returns true on this step.
ReturnsTrue(t) ==
    /\ tasks[t].op = "install" /\ tasks[t].pc = "lock"
    /\ InstallReturnedTrue(tasks'[t])

\* C40: the step on which an install of slug s returns true sets the entry of
\* s in the lock record to the resolved version and leaves the entry of every
\* other slug as it was; no other step changes the lock record; so under any
\* interleaving of installs of different slugs every install that has
\* returned true has its entry in the lock record, which holds one entry per
\* slug.
C40_NoLostLockUpdate ==
    [][/\ \A t \in Tasks :
             ReturnsTrue(t) =>
                /\ lockfile'.content = "records"
                /\ tasks[t].safeSlug \in DOMAIN lockfile'.records
                /\ lockfile'.records[tasks[t].safeSlug].version
                      = tasks[t].resolvedVersion
                /\ SameButFor(lockfile.records, lockfile'.records,
                              tasks[t].safeSlug)
       /\ (\A t \in Tasks : ~ReturnsTrue(t)) => UNCHANGED lockfile
       /\ \A t \in Tasks :
             InstallReturnedTrue(tasks'[t]) =>
                /\ lockfile'.content = "records"
                /\ tasks'[t].safeSlug \in DOMAIN lockfile'.records]_vars

\* The installs of a and of b have both returned true and the lock record
\* holds the entry of each with its resolved version.
C40_Witness ==
    /\ \A t \in Tasks : InstallReturnedTrue(tasks[t])
    /\ tasks["t1"].safeSlug # tasks["t2"].safeSlug
    /\ lockfile.content = "records"
    /\ \A t \in Tasks :
          /\ tasks[t].safeSlug \in DOMAIN lockfile.records
          /\ lockfile.records[tasks[t].safeSlug].version
                = tasks[t].resolvedVersion

\* C31 as claimed: a local match of score 8 or more is a skill whose slug or
\* name matches the search terms; description words alone never give 8.
C31_StrongMeansNameOrSlug ==
    \A t \in Tasks :
       LET c == tasks[t]
           f == c.frame
       IN  (/\ c.op = "getSkillGuidance" /\ f # NULL /\ f.decided
            /\ StrongLocal(f))
           => \/ NameMatches(toLowerCase(Text(f.localMatch.skill.slug)),
                             f.searchTerms)
              \/ NameMatches(toLowerCase(f.localMatch.skill.name),
                             f.searchTerms)

\* C37 as claimed: only the completion of a fetch changes the cached catalog;
\* no read of it by a provider or by the search action does, so it holds the
\* entries of the last refresh in the order they were fetched.
C37_ReadersLeaveCatalog ==
    [][(\A t \in Tasks : ~CompletesFetch(t)) => UNCHANGED catalogCache]_vars

====
